---------------------------- MODULE Spec2Model ----------------------------
(***************************************************************************)
(* Study-Guide-Generator: the server's study-guide request handler         *)
(* (upload filter, parseFileContent, handleStudyGuideGeneration) and the   *)
(* client page's upload / generate state (Index.tsx).                      *)
(*                                                                         *)
(* Texts are kept run-length encoded: a text is a sequence of runs         *)
(* [c |-> symbol, n |-> count], n >= 1, adjacent runs with different       *)
(* symbols.  A run stands for n consecutive characters of class c.         *)
(* File names are plain sequences of one-character strings, and so are the *)
(* texts of the page's display functions (cleanContent, the flashcard      *)
(* extraction of formatContent, parseOutline, extractKeyPoints), whose     *)
(* regular expressions are modelled character by character.                *)
(***************************************************************************)
EXTENDS Integers, Sequences, FiniteSets, TLC

(***************************************************************************)
(* Bounds of the model                                                     *)
(***************************************************************************)
\* how many characters beyond maxLength the longest sample text has
MaxOver == 2
\* how many generate requests the client model starts
MaxRequests == 3
\* the longest text given to extractKeyPoints, in lines
MaxKeyPointLines == 4
\* the longest text given to parseOutline, in lines
MaxOutlineLines == 4
\* the longest text given to cleanContent, in lines
MaxCleanLines == 3

\* blocks in a text handed to formatContent
MaxCardBlocks == 2

(***************************************************************************)
(* Program constants                                                       *)
(***************************************************************************)
\* part_000:207  const maxLength = 12000
maxLength == 12000
\* Index.tsx:142  50 * 1024 * 1024
MaxFileSize == 52428800

\* part_000:227
models == <<"gpt-4.1-nano-2025-04-14", "gpt-4o-mini", "gpt-3.5-turbo", "gpt-4o">>

\* part_000:14-15 and Index.tsx:128-129
allowedTypes == {"application/pdf", "image/png", "text/markdown", "text/plain"}
allowedExtensions == {<<".", "p", "d", "f">>, <<".", "p", "n", "g">>,
                      <<".", "m", "d">>, <<".", "t", "x", "t">>}

(***************************************************************************)
(* Strings                                                                 *)
(***************************************************************************)
Whitespace == {" ", "\n"}

RECURSIVE Norm(_)
\* canonical form of a run sequence: no empty run, no two adjacent runs alike
Norm(t) ==
  IF t = <<>> THEN <<>>
  ELSE IF Head(t).n = 0 THEN Norm(Tail(t))
  ELSE LET r == Norm(Tail(t)) IN
       IF r # <<>> /\ Head(r).c = Head(t).c
       THEN <<[c |-> Head(t).c, n |-> Head(t).n + Head(r).n]>> \o Tail(r)
       ELSE <<Head(t)>> \o r

\* s + t
Concat(s, t) == Norm(s \o t)

RECURSIVE TextLen(_)
\* s.length
TextLen(t) == IF t = <<>> THEN 0 ELSE Head(t).n + TextLen(Tail(t))

RECURSIVE Prefix(_, _)
\* s.substring(0, k)
Prefix(t, k) ==
  IF k <= 0 \/ t = <<>> THEN <<>>
  ELSE IF Head(t).n >= k THEN <<[c |-> Head(t).c, n |-> k]>>
  ELSE <<Head(t)>> \o Prefix(Tail(t), k - Head(t).n)

RECURSIVE TrimStart(_)
TrimStart(t) ==
  IF t # <<>> /\ Head(t).c \in Whitespace THEN TrimStart(Tail(t)) ELSE t

RECURSIVE TrimEnd(_)
TrimEnd(t) ==
  IF t # <<>> /\ t[Len(t)].c \in Whitespace
  THEN TrimEnd(SubSeq(t, 1, Len(t) - 1)) ELSE t

\* s.trim()
Trim(t) == TrimEnd(TrimStart(t))

\* a text of n characters of class c
Run(c, n) == Norm(<<[c |-> c, n |-> n]>>)

(***************************************************************************)
(* File names: originalname.toLowerCase().substring(lastIndexOf('.'))      *)
(***************************************************************************)
ToLowerCase(name) ==
  [i \in 1..Len(name) |->
     CASE name[i] = "P" -> "p" [] name[i] = "N" -> "n" [] name[i] = "G" -> "g"
       [] name[i] = "D" -> "d" [] name[i] = "F" -> "f" [] name[i] = "E" -> "e"
       [] name[i] = "X" -> "x" [] name[i] = "M" -> "m" [] name[i] = "T" -> "t"
       [] name[i] = "A" -> "a"
       [] OTHER -> name[i]]

\* 0-based index of the last '.', -1 when there is none
LastIndexOfDot(name) ==
  LET dots == {i \in 1..Len(name) : name[i] = "."} IN
  IF dots = {} THEN -1
  ELSE (CHOOSE i \in dots : \A j \in dots : j <= i) - 1

\* String.prototype.substring(start): a negative start counts as 0
SubstringFrom(name, start) ==
  LET s == IF start < 0 THEN 0 ELSE start IN SubSeq(name, s + 1, Len(name))

FileExtension(originalname) ==
  SubstringFrom(ToLowerCase(originalname), LastIndexOfDot(originalname))


(***************************************************************************)
(* Server: inputs                                                          *)
(***************************************************************************)
NoFile == [originalname |-> <<>>, mimetype |-> "none"]

FileNames == {<<"a", ".", "p", "d", "f">>, <<"a", ".", "P", "N", "G">>,
              <<"a", ".", "m", "d">>, <<"a", ".", "t", "x", "t">>,
              <<"a", ".", "e", "x", "e">>, <<"a">>}
MimeTypes == {"application/pdf", "text/plain", "application/octet-stream"}
Files == [originalname : FileNames, mimetype : MimeTypes]

\* req.body.type: "" stands for a missing field
Types == {"", "flashcards", "essay"}
\* req.body.apiKey and process.env.VITE_OPENAI_API_KEY: "" stands for unset
ApiKeys == {"", "sk-user"}
EnvKeys == {"", "sk-env"}

Requests == [file : Files \cup {NoFile}, type : Types, apiKey : ApiKeys]

\* what the temporary file, an OCR run or a PDF text run may hold
SampleTexts ==
  {<<>>, Run(" ", 3), Run("a", 5), Run("a", maxLength - 1), Run("a", maxLength)}
  \cup {Concat(Run("a", maxLength), Run("b", k)) : k \in 1..MaxOver}
  \cup {Concat(Run(" ", 2), Concat(Run("a", maxLength - 1), Run("b", MaxOver)))}

\* pdfParser_dataReady payloads: pages of decoded text runs; BadURI is a run
\* whose T makes decodeURIComponent throw
BadURI == <<[c |-> "%", n |-> 1]>>
PdfDatas ==
  {[Pages |-> <<>>], [Pages |-> << <<>> >>],
   [Pages |-> << <<Run("a", 5)>> >>],
   [Pages |-> << <<Run("a", 3)>>, <<Run("b", 2)>> >>],
   [Pages |-> << <<Run("a", 2), BadURI>> >>],
   [Pages |-> << <<Run("a", maxLength + MaxOver)>> >>]}

\* Errors thrown by openai.chat.completions.create: status 0 and code "" stand
\* for undefined; a message is the sequence of its phrases
Messages == {<<"Connection error.">>, <<"Incorrect ", "API key", " provided">>,
             <<"Error ", "parsing", " response">>}
UpstreamErrors ==
  [status : {0, 401, 403, 404, 413, 429, 500},
   code : {"", "model_not_found"}, message : Messages]
NoError == [status |-> 0, code |-> "", message |-> <<>>]
TypeErrorUndefined ==
  [status |-> 0, code |-> "", message |-> <<"Cannot read properties of undefined">>]

\* error.message.includes(phrase)
Includes(message, phrase) == \E i \in 1..Len(message) : message[i] = phrase
\* error.message, joined
MessageText(message) ==
  IF Len(message) = 0 THEN ""
  ELSE IF Len(message) = 1 THEN message[1]
  ELSE message[1] \o message[2] \o message[3]

\* what a successful completion carries in choices[0].message.content
CompletionShapes == {"content", "empty", "nochoices"}
NoCompletion == [model |-> "", shape |-> "none"]

VARIABLES
  req,        \* the multipart request: file, type, apiKey fields
  envKey,     \* process.env.VITE_OPENAI_API_KEY
  nodeEnv,    \* process.env.NODE_ENV
  pc,         \* position of the request in the middleware / handler
  fileExists, \* the temporary file uploads/<id> is on disk
  reading,    \* text extraction of the temporary file: none, started, finished
  parseRet,   \* completion record of parseFileContent's try block
  parsed,     \* state of the promise parseFileContent returned to the handler
  content,    \* the handler's content variable
  prompt,     \* getPromptForType(type, content)
  called,     \* the model identifiers passed to completions.create, in order
  completion, \* the handler's completion variable
  lastError,  \* the handler's lastError variable
  thrown,     \* the error that reached the outer catch
  responses   \* the responses sent on res, in order

serverVars == <<req, envKey, nodeEnv, pc, fileExists, reading, parseRet, parsed, content,
                prompt, called, completion, lastError, thrown, responses>>

\* Index.tsx:33-39, the page component's state, and what it has in progress
VARIABLES
  selectedFile,     \* useState<File | null>
  selectedType,     \* useState<StudyGuideType | null>
  isGenerating,     \* useState(false)
  generatedContent, \* useState<GeneratedContent | null>
  progress,         \* useState(0)
  toast,            \* the last toast shown
  inflight,         \* generateStudyGuide calls that have not settled yet
  timers,           \* the progress intervals that are set and not cleared
  started           \* how many generateStudyGuide calls have started a fetch

clientVars == <<selectedFile, selectedType, isGenerating, generatedContent,
                progress, toast, inflight, timers, started>>

\* extractKeyPoints (Index.tsx 331-348)
VARIABLES
  keyPointsText,    \* the argument text
  bulletLines,      \* lines.slice(firstBulletIdx), or lines
  bulletIdx,        \* position of the for-of loop in bulletLines (1-based)
  intro,
  bullets,
  buf,
  keyPointsPc

keyPointVars == <<keyPointsText, bulletLines, bulletIdx, intro, bullets, buf, keyPointsPc>>

\* parseOutline (Index.tsx 289-329)
VARIABLES
  outlineText,      \* the argument text
  lines,            \* text.split(/\r?\n/).map(trim).filter(Boolean)
  lineIdx,          \* position of the for-of loop in lines (1-based)
  sections,
  current,          \* <<>> for null, <<section>> otherwise
  currentSub,       \* <<>> for null, <<subtopic>> otherwise
  outlinePc

outlineVars == <<outlineText, lines, lineIdx, sections, current, currentSub, outlinePc>>

\* cleanContent (Index.tsx 44-81)
VARIABLES
  cleanInput,       \* the argument content
  cleanType,        \* the argument type
  cleaned,          \* the value returned
  cleanedAgain,     \* the value returned for (cleaned, type)
  cleanPc

cleanVars == <<cleanInput, cleanType, cleaned, cleanedAgain, cleanPc>>

\* formatContent, case 'flashcards' (Index.tsx 518-569)
VARIABLES
  cardsInput,       \* the argument content
  cleanedContent,
  flashcards,
  rx,               \* index in patterns of the pattern being run (1-based)
  lastIndex,        \* rx.lastIndex (0-based)
  cardsPc

cardVars == <<cardsInput, cleanedContent, flashcards, rx, lastIndex, cardsPc>>

\* handleCopy (Index.tsx 405-448)
VARIABLES
  copyEnv,          \* how the browser answers each copy strategy
  contentRef,       \* contentRef.current is an element
  copyText,         \* const text = getRaw()
  tried,            \* the strategies run so far, in order
  copyToasts,       \* the toasts shown by the invocation, in order
  textareaInBody,   \* the hidden textarea is a child of document.body
  copyPc

copyVars == <<copyEnv, contentRef, copyText, tried, copyToasts, textareaInBody, copyPc>>

textVars == <<keyPointVars, outlineVars, cleanVars, cardVars, copyVars>>

NoText == [kind |-> "none", text |-> <<>>]
NoPrompt == [type |-> "", content |-> <<>>, instructions |-> ""]

ServerInit ==
  /\ req \in Requests
  /\ envKey \in EnvKeys
  /\ nodeEnv \in {"production", "development"}
  /\ pc = "upload"
  /\ fileExists = FALSE
  /\ reading = "none"
  /\ parseRet = NoText
  /\ parsed = NoText
  /\ content = <<>>
  /\ prompt = NoPrompt
  /\ called = <<>>
  /\ completion = NoCompletion
  /\ lastError = NoError
  /\ thrown = NoError
  /\ responses = <<>>

(***************************************************************************)
(* upload.single('file'): multer's fileFilter, then the file is stored     *)
(***************************************************************************)
FileFilter(file) ==
  file.mimetype \in allowedTypes
    \/ FileExtension(file.originalname) \in allowedExtensions

UploadMiddleware ==
  /\ pc = "upload"
  /\ IF req.file = NoFile
     THEN /\ pc' = "validate"
          /\ UNCHANGED fileExists
     ELSE IF FileFilter(req.file)
     THEN /\ pc' = "validate"
          /\ fileExists' = TRUE
     ELSE \* cb(new Error('Invalid file type...')): the handler is not run
          /\ pc' = "rejected"
          /\ UNCHANGED fileExists
  /\ UNCHANGED <<req, envKey, nodeEnv, reading, parseRet, parsed, content, prompt, called,
                 completion, lastError, thrown, responses>>
  /\ UNCHANGED <<clientVars, textVars>>

(***************************************************************************)
(* handleStudyGuideGeneration, lines 159-184                               *)
(***************************************************************************)
\* a handler that reads the credential from the form field only
EffectiveKeyFieldOnly(r, env) == r.apiKey

\* req.body.apiKey || process.env.VITE_OPENAI_API_KEY
EffectiveKey(r, env) == IF r.apiKey # "" THEN r.apiKey ELSE env

ErrorResponse(status, text) == [status |-> status, body |-> [error |-> text]]

ValidationError(r, env) ==
  IF r.file = NoFile THEN "No file uploaded"
  ELSE IF r.type = "" THEN "Study guide type not specified"
  ELSE IF EffectiveKey(r, env) = "" THEN "OpenAI API key not provided"
  ELSE ""

Validate ==
  /\ pc = "validate"
  /\ IF ValidationError(req, envKey) # ""
     THEN /\ responses' = Append(responses, ErrorResponse(400, ValidationError(req, envKey)))
          /\ pc' = "done"
     ELSE /\ pc' = "parse"
          /\ UNCHANGED responses
  /\ UNCHANGED <<req, envKey, nodeEnv, fileExists, reading, parseRet, parsed, content,
                 prompt, called, completion, lastError, thrown>>
  /\ UNCHANGED <<clientVars, textVars>>


(***************************************************************************)
(* parseFileContent, lines 27-106                                          *)
(***************************************************************************)
Ext == FileExtension(req.file.originalname)
IsPdf == Ext = <<".", "p", "d", "f">>
IsPng == Ext = <<".", "p", "n", "g">>
IsText == Ext \in {<<".", "m", "d">>, <<".", "t", "x", "t">>}

Returned(t) == [kind |-> "text", text |-> t]
Threw == [kind |-> "thrown", text |-> <<>>]
Pending == [kind |-> "pending", text |-> <<>>]

parseUnchanged == <<req, envKey, nodeEnv, content, prompt, called, completion, lastError,
                    thrown, responses>>

\* case '.pdf': the promise is created, loadPDF(filePath) starts reading the
\* file, and the promise is returned without being awaited
ParsePdf ==
  /\ pc = "parse" /\ IsPdf
  /\ reading' = "started"
  /\ parseRet' = Pending
  /\ pc' = "finally"
  /\ UNCHANGED <<fileExists, parsed>>
  /\ UNCHANGED parseUnchanged
  /\ UNCHANGED <<clientVars, textVars>>

\* case '.png': createWorker, recognize and terminate are awaited in the try
ParsePng ==
  /\ pc = "parse" /\ IsPng
  /\ \/ \E t \in SampleTexts : reading' = "finished" /\ parseRet' = Returned(t)
     \/ reading' = "failed" /\ parseRet' = Threw
  /\ pc' = "finally"
  /\ UNCHANGED <<fileExists, parsed>>
  /\ UNCHANGED parseUnchanged
  /\ UNCHANGED <<clientVars, textVars>>

\* case '.md', '.txt': fs.readFileSync(filePath, 'utf-8')
ParseText ==
  /\ pc = "parse" /\ IsText
  /\ \E t \in SampleTexts : parseRet' = Returned(t)
  /\ reading' = "finished"
  /\ pc' = "finally"
  /\ UNCHANGED <<fileExists, parsed>>
  /\ UNCHANGED parseUnchanged
  /\ UNCHANGED <<clientVars, textVars>>

\* default: throw new Error('Unsupported file type')
ParseUnsupported ==
  /\ pc = "parse" /\ ~IsPdf /\ ~IsPng /\ ~IsText
  /\ parseRet' = Threw
  /\ pc' = "finally"
  /\ UNCHANGED <<fileExists, reading, parsed>>
  /\ UNCHANGED parseUnchanged
  /\ UNCHANGED <<clientVars, textVars>>

\* cleanup written at the end of the try block instead of in a finally: it is
\* skipped when the block throws
FinallyOnReturnOnly ==
  /\ pc = "finally"
  /\ fileExists' = (fileExists /\ parseRet.kind = "thrown")
  /\ parsed' = parseRet
  /\ pc' = "await"
  /\ UNCHANGED <<reading, parseRet>>
  /\ UNCHANGED parseUnchanged
  /\ UNCHANGED <<clientVars, textVars>>

\* finally { fs.unlinkSync(filePath) }: runs when the try block completes, then
\* the async function's promise takes the completion value
Finally ==
  /\ pc = "finally"
  /\ fileExists' = FALSE
  /\ parsed' = parseRet
  /\ pc' = "await"
  /\ UNCHANGED <<reading, parseRet>>
  /\ UNCHANGED parseUnchanged
  /\ UNCHANGED <<clientVars, textVars>>

RECURSIVE RunsText(_)
\* for (const textRun of textElement.R) text += decodedText + ' '
RunsText(runs) ==
  IF runs = <<>> THEN <<>>
  ELSE Concat(Concat(Head(runs), Run(" ", 1)), RunsText(Tail(runs)))

RECURSIVE PagesText(_)
\* for (const page of pdfData.Pages) { ...; text += '\n' }
PagesText(pages) ==
  IF pages = <<>> THEN <<>>
  ELSE Concat(Concat(RunsText(Head(pages)), Run("\n", 1)), PagesText(Tail(pages)))

DecodeThrows(pdfData) ==
  \E i \in 1..Len(pdfData.Pages) :
    \E j \in 1..Len(pdfData.Pages[i]) : pdfData.Pages[i][j] = BadURI

\* the placeholders: `PDF file: ${file.originalname} ...`
NoTextPlaceholder(name) ==
  Run("PDF file - No readable text content found", 10 + Len(name) + 77)
ProcessingPlaceholder(name) ==
  Run("PDF file - Error processing content", 10 + Len(name) + 28)
ExtractionFailedPlaceholder(name) ==
  Run("PDF file (size KB) - Text extraction failed", 10 + Len(name) + 3 + 114)

\* the body of the pdfParser_dataReady listener, lines 47-78
PdfReadyText(name, pdfData) ==
  IF DecodeThrows(pdfData) THEN ProcessingPlaceholder(name)
  ELSE LET text == PagesText(pdfData.Pages) IN
       IF TextLen(Trim(text)) = 0 THEN NoTextPlaceholder(name) ELSE Trim(text)

PdfDataReady ==
  /\ pc = "await" /\ parsed = Pending /\ reading = "started"
  /\ \E d \in PdfDatas : parsed' = Returned(PdfReadyText(req.file.originalname, d))
  /\ reading' = "finished"
  /\ UNCHANGED <<pc, fileExists, parseRet>>
  /\ UNCHANGED parseUnchanged
  /\ UNCHANGED <<clientVars, textVars>>

\* the pdfParser_dataError listener, lines 40-44: fs.statSync(filePath) throws
\* ENOENT when the file is gone, before resolve is reached
PdfDataError ==
  /\ pc = "await" /\ parsed = Pending /\ reading = "started"
  /\ reading' = "failed"
  /\ parsed' = IF fileExists
               THEN Returned(ExtractionFailedPlaceholder(req.file.originalname))
               ELSE Pending
  /\ UNCHANGED <<pc, fileExists, parseRet>>
  /\ UNCHANGED parseUnchanged
  /\ UNCHANGED <<clientVars, textVars>>

(***************************************************************************)
(* handleStudyGuideGeneration, lines 186-223                               *)
(***************************************************************************)
TruncationMarker ==
  Concat(Run("\n", 2), Run("[Content truncated due to length...]", 36))

\* the length test written >= instead of >
TruncateAtLimit(c) ==
  IF TextLen(c) >= maxLength
  THEN Concat(Prefix(c, maxLength), TruncationMarker)
  ELSE c

Truncate(c) ==
  IF TextLen(c) > maxLength
  THEN Concat(Prefix(c, maxLength), TruncationMarker)
  ELSE c

GetPromptForType(type, c) ==
  [type |-> type, content |-> c,
   instructions |->
     CASE type = "summary" -> "comprehensive but concise summary"
       [] type = "points" -> "bullet-point list"
       [] type = "flashcards" -> "flashcards in a question and answer format"
       [] type = "quiz" -> "comprehensive quiz"
       [] type = "outline" -> "detailed hierarchical outline"
       [] OTHER -> "clear, educational format"]

HandleParsed ==
  /\ pc = "await" /\ parsed.kind \in {"text", "thrown"}
  /\ IF parsed.kind = "thrown"
     THEN /\ responses' = Append(responses, ErrorResponse(400,
                 "Failed to parse file content. Please ensure the file is valid and readable."))
          /\ pc' = "done"
          /\ UNCHANGED <<content, prompt>>
     ELSE IF TextLen(Trim(parsed.text)) = 0
     THEN /\ responses' = Append(responses, ErrorResponse(400,
                 "No readable content found in the file. Please check if the file contains text."))
          /\ pc' = "done"
          /\ UNCHANGED <<content, prompt>>
     ELSE /\ content' = Truncate(parsed.text)
          /\ prompt' = GetPromptForType(req.type, Truncate(parsed.text))
          /\ pc' = "loop"
          /\ UNCHANGED responses
  /\ UNCHANGED <<req, envKey, nodeEnv, fileExists, reading, parseRet, parsed, called,
                 completion, lastError, thrown>>
  /\ UNCHANGED <<clientVars, textVars>>


(***************************************************************************)
(* The model loop, lines 225-264                                           *)
(***************************************************************************)
loopUnchanged == <<req, envKey, nodeEnv, fileExists, reading, parseRet, parsed, content,
                   prompt, responses>>

\* a classifier that looks at the status only
IsAccessErrorStatusOnly(e) == e.status = 403

\* the negation of line 253: the failure is a model access issue
IsAccessError(e) == e.status = 403 \/ e.code = "model_not_found"

\* a loop body without the break
ModelSucceedsNoBreak ==
  /\ pc = "loop" /\ Len(called) < Len(models)
  /\ LET model == models[Len(called) + 1] IN
       /\ called' = Append(called, model)
       /\ \E shape \in CompletionShapes :
            completion' = [model |-> model, shape |-> shape]
  /\ pc' = IF Len(called) + 1 < Len(models) THEN "loop" ELSE "afterLoop"
  /\ UNCHANGED <<lastError, thrown>>
  /\ UNCHANGED loopUnchanged
  /\ UNCHANGED <<clientVars, textVars>>

\* completions.create resolves: break
ModelSucceeds ==
  /\ pc = "loop" /\ Len(called) < Len(models)
  /\ LET model == models[Len(called) + 1] IN
       /\ called' = Append(called, model)
       /\ \E shape \in CompletionShapes :
            completion' = [model |-> model, shape |-> shape]
  /\ pc' = "afterLoop"
  /\ UNCHANGED <<lastError, thrown>>
  /\ UNCHANGED loopUnchanged
  /\ UNCHANGED <<clientVars, textVars>>

\* completions.create rejects: rethrow, or go on with the next model
ModelFails ==
  /\ pc = "loop" /\ Len(called) < Len(models)
  /\ called' = Append(called, models[Len(called) + 1])
  /\ \E e \in UpstreamErrors :
       /\ lastError' = e
       /\ IF ~IsAccessError(e)
          THEN thrown' = e /\ pc' = "catch"
          ELSE /\ pc' = IF Len(called) + 1 < Len(models) THEN "loop" ELSE "afterLoop"
               /\ UNCHANGED thrown
  /\ UNCHANGED completion
  /\ UNCHANGED loopUnchanged
  /\ UNCHANGED <<clientVars, textVars>>

(***************************************************************************)
(* Lines 261-283                                                           *)
(***************************************************************************)
\* completion.choices[0]?.message?.content of a completion by `model`
GeneratedContent(c) == IF c.shape = "content" THEN <<"generated by", c.model>> ELSE <<>>

SuccessResponse(c, r) ==
  [status |-> 200,
   body |-> [success |-> TRUE, content |-> GeneratedContent(c), type |-> r.type,
             filename |-> r.file.originalname]]

AfterLoop ==
  /\ pc = "afterLoop"
  /\ IF completion = NoCompletion
     THEN /\ thrown' = IF lastError # NoError THEN lastError
                       ELSE [status |-> 0, code |-> "", message |-> <<"All models failed">>]
          /\ pc' = "catch"
          /\ UNCHANGED responses
     ELSE IF completion.shape = "nochoices"
     THEN /\ thrown' = TypeErrorUndefined
          /\ pc' = "catch"
          /\ UNCHANGED responses
     ELSE IF GeneratedContent(completion) = <<>>
     THEN /\ responses' = Append(responses,
                 ErrorResponse(500, "Failed to generate study guide content"))
          /\ pc' = "done"
          /\ UNCHANGED thrown
     ELSE /\ responses' = Append(responses, SuccessResponse(completion, req))
          /\ pc' = "done"
          /\ UNCHANGED thrown
  /\ UNCHANGED <<req, envKey, nodeEnv, fileExists, reading, parseRet, parsed, content,
                 prompt, called, completion, lastError>>
  /\ UNCHANGED <<clientVars, textVars>>

(***************************************************************************)
(* The outer catch, lines 285-331                                          *)
(***************************************************************************)
\* the generic body: details is error.stack in development, else undefined and
\* left out of the JSON
GenericBody(text, env) ==
  IF env = "development" THEN [error |-> text, details |-> "error.stack"]
  ELSE [error |-> text]

ErrorToResponse(e, env) ==
  IF e.status = 401
  THEN ErrorResponse(401, "Invalid OpenAI API key. Please check your API key and try again.")
  ELSE IF e.status = 403 \/ e.code = "model_not_found"
  THEN ErrorResponse(403, "Your OpenAI API key does not have access to the required models.")
  ELSE IF e.status = 429
  THEN ErrorResponse(429, "OpenAI API rate limit exceeded. Please try again later.")
  ELSE IF e.status = 413
  THEN ErrorResponse(413, "Content too large. Please try with a smaller file.")
  ELSE IF Includes(e.message, "API key")
  THEN ErrorResponse(401, "OpenAI API key issue: " \o MessageText(e.message))
  ELSE IF Includes(e.message, "parsing")
  THEN ErrorResponse(400, "File parsing failed: " \o MessageText(e.message))
  ELSE [status |-> 500,
        body |-> GenericBody(
          IF MessageText(e.message) # "" THEN MessageText(e.message)
          ELSE "An error occurred while generating the study guide. Please try again.",
          env)]

CatchError ==
  /\ pc = "catch"
  /\ responses' = Append(responses, ErrorToResponse(thrown, nodeEnv))
  /\ pc' = "done"
  /\ UNCHANGED <<req, envKey, nodeEnv, fileExists, reading, parseRet, parsed, content,
                 prompt, called, completion, lastError, thrown>>
  /\ UNCHANGED <<clientVars, textVars>>

ServerNext ==
  \/ UploadMiddleware
  \/ Validate
  \/ ParsePdf
  \/ ParsePng
  \/ ParseText
  \/ ParseUnsupported
  \/ Finally
  \/ PdfDataReady
  \/ PdfDataError
  \/ HandleParsed
  \/ ModelSucceeds
  \/ ModelFails
  \/ AfterLoop
  \/ CatchError



(***************************************************************************)
(* Client (Index.tsx): inputs                                              *)
(***************************************************************************)
Null == [name |-> <<>>, type |-> "null", size |-> 0]

ClientFileNames == {<<"a", ".", "p", "d", "f">>, <<"a", ".", "e", "x", "e">>}
ClientFileTypes == {"text/plain", "application/x-msdownload"}
ClientFileSizes == {MaxFileSize, MaxFileSize + 1}
ClientFiles == [name : ClientFileNames, type : ClientFileTypes, size : ClientFileSizes]

\* the option ids offered by the type buttons; "null" is no selection
StudyGuideTypes == {"summary", "flashcards"}

NoContent == [type |-> "null", content |-> "", filename |-> <<>>]
NoToast == [title |-> "", variant |-> "none"]
Toast(title) == [title |-> title, variant |-> "default"]
Destructive(title) == [title |-> title, variant |-> "destructive"]

\* what fetch resolves to: response.ok, and what response.json() gives
\* (error: the phrases of errorData.error; json "throws" when the body is no JSON)
ServerResponses ==
  {[ok |-> TRUE, json |-> "object", content |-> "study guide", error |-> <<>>],
   [ok |-> TRUE, json |-> "object", content |-> "", error |-> <<>>],
   [ok |-> TRUE, json |-> "throws", content |-> "", error |-> <<>>],
   [ok |-> FALSE, json |-> "object", content |-> "",
    error |-> <<"Your OpenAI ", "API key does not have access", " to the required models.">>],
   [ok |-> FALSE, json |-> "object", content |-> "",
    error |-> <<"Invalid OpenAI API key", ". Please check your API key and try again.">>],
   [ok |-> FALSE, json |-> "object", content |-> "",
    error |-> <<"OpenAI API ", "rate limit", " exceeded. Please try again later.">>],
   [ok |-> FALSE, json |-> "object", content |-> "", error |-> <<"No file uploaded">>],
   [ok |-> FALSE, json |-> "throws", content |-> "", error |-> <<>>]}
NoResponse == [ok |-> FALSE, json |-> "none", content |-> "", error |-> <<>>]

ClientInit ==
  /\ selectedFile = Null
  /\ selectedType = "null"
  /\ isGenerating = FALSE
  /\ generatedContent = NoContent
  /\ progress = 0
  /\ toast = NoToast
  /\ inflight = {}
  /\ timers = {}
  /\ started = 0

(***************************************************************************)
(* handleFileUpload, lines 127-157 (called by handleDrop, handleFileInput) *)
(***************************************************************************)
\* line 133: neither the MIME type nor the extension is allowed
InvalidFileType(file) ==
  file.type \notin allowedTypes /\ FileExtension(file.name) \notin allowedExtensions

\* line 142
FileTooLarge(file) == file.size > MaxFileSize

HandleFileUpload(file) ==
  /\ IF InvalidFileType(file)
     THEN /\ toast' = Destructive("Invalid file type")
          /\ UNCHANGED <<selectedFile, generatedContent>>
     ELSE IF FileTooLarge(file)
     THEN /\ toast' = Destructive("File too large")
          /\ UNCHANGED <<selectedFile, generatedContent>>
     ELSE /\ selectedFile' = file
          /\ generatedContent' = NoContent
          /\ toast' = Toast("File uploaded successfully")
  /\ UNCHANGED <<selectedType, isGenerating, progress, inflight, timers, started>>
  /\ UNCHANGED <<serverVars, textVars>>

\* the drop zone's onDrop and the file input's onChange
UploadFile == \E file \in ClientFiles : HandleFileUpload(file)

\* the Remove button, line 835: shown while a file is selected
RemoveFile ==
  /\ selectedFile # Null
  /\ selectedFile' = Null
  /\ UNCHANGED <<selectedType, isGenerating, generatedContent, progress, toast,
                 inflight, timers, started>>
  /\ UNCHANGED <<serverVars, textVars>>

\* the type buttons, line 869
SelectType ==
  /\ \E t \in StudyGuideTypes : selectedType' = t
  /\ UNCHANGED <<selectedFile, isGenerating, generatedContent, progress, toast,
                 inflight, timers, started>>
  /\ UNCHANGED <<serverVars, textVars>>

(***************************************************************************)
(* generateStudyGuide, lines 174-275                                       *)
(***************************************************************************)
\* a button that is not disabled while a request is pending
GenerateDisabledNoPending == selectedFile = Null \/ selectedType = "null"

\* line 889: disabled={!selectedFile || !selectedType || isGenerating}
GenerateDisabled == selectedFile = Null \/ selectedType = "null" \/ isGenerating

\* lines 175-211, up to the await of fetch
GenerateStudyGuide ==
  IF selectedFile = Null \/ selectedType = "null"
  THEN /\ toast' = Destructive("Missing requirements")
       /\ UNCHANGED <<isGenerating, progress, inflight, timers, started>>
  ELSE /\ isGenerating' = TRUE
       /\ progress' = 0
       /\ started' = started + 1
       /\ timers' = timers \cup {started + 1}
       /\ inflight' = inflight \cup
            {[id |-> started + 1, file |-> selectedFile, type |-> selectedType,
              stage |-> "fetch", response |-> NoResponse]}
       /\ UNCHANGED toast

\* a click on the Generate button
ClickGenerate ==
  /\ ~GenerateDisabled
  /\ started < MaxRequests
  /\ GenerateStudyGuide
  /\ UNCHANGED <<selectedFile, selectedType, generatedContent>>
  /\ UNCHANGED <<serverVars, textVars>>

\* the interval callback, line 205
ProgressTick ==
  /\ timers # {}
  /\ progress' = IF progress + 10 < 90 THEN progress + 10 ELSE 90
  /\ UNCHANGED <<selectedFile, selectedType, isGenerating, generatedContent, toast,
                 inflight, timers, started>>
  /\ UNCHANGED <<serverVars, textVars>>

\* the title the catch block gives the toast, lines 252-264
ErrorTitle(message) ==
  IF Includes(message, "API key does not have access") THEN "API Key Access Issue"
  ELSE IF Includes(message, "Invalid OpenAI API key") THEN "Invalid API Key"
  ELSE IF Includes(message, "rate limit") THEN "Rate Limit Exceeded"
  ELSE "Generation failed"

\* a catch with no finally after it
CatchNoFinally(r, message) ==
  /\ toast' = Destructive(ErrorTitle(message))
  /\ progress' = 0
  /\ inflight' = inflight \ {r}
  /\ UNCHANGED isGenerating

\* catch, then finally: lines 249-274
CatchFinally(r, message) ==
  /\ toast' = Destructive(ErrorTitle(message))
  /\ isGenerating' = FALSE
  /\ progress' = 0
  /\ inflight' = inflight \ {r}

\* fetch resolves: lines 213-214, then the body is awaited
FetchResolves ==
  /\ \E r \in inflight : \E resp \in ServerResponses :
       /\ r.stage = "fetch"
       /\ timers' = timers \ {r.id}
       /\ progress' = 100
       /\ inflight' = (inflight \ {r}) \cup {[r EXCEPT !.stage = "body", !.response = resp]}
  /\ UNCHANGED <<selectedFile, selectedType, isGenerating, generatedContent, toast, started>>
  /\ UNCHANGED <<serverVars, textVars>>

\* fetch rejects (the network failed): control goes to catch and finally
FetchRejects ==
  /\ \E r \in inflight :
       /\ r.stage = "fetch"
       /\ CatchFinally(r, <<"Failed to fetch">>)
  /\ UNCHANGED <<selectedFile, selectedType, generatedContent, timers, started>>
  /\ UNCHANGED <<serverVars, textVars>>

\* the message of the Error thrown at line 229 or 235, or by response.json()
ResponseError(resp) ==
  IF ~resp.ok
  THEN (IF resp.json = "object" THEN resp.error ELSE <<"HTTP error">>)
  ELSE IF resp.json = "throws" THEN <<"Unexpected token">>
  ELSE <<"No content received from server">>

\* the body has been read: lines 216-247, then finally
BodyRead ==
  /\ \E r \in inflight :
       /\ r.stage = "body"
       /\ IF r.response.ok /\ r.response.json = "object" /\ r.response.content # ""
          THEN /\ generatedContent' = [type |-> r.type, content |-> r.response.content,
                                       filename |-> r.file.name]
               /\ toast' = Toast("Study guide generated!")
               /\ isGenerating' = FALSE
               /\ progress' = 0
               /\ inflight' = inflight \ {r}
          ELSE /\ CatchFinally(r, ResponseError(r.response))
               /\ UNCHANGED generatedContent
  /\ UNCHANGED <<selectedFile, selectedType, timers, started>>
  /\ UNCHANGED <<serverVars, textVars>>

ClientNext ==
  \/ UploadFile
  \/ RemoveFile
  \/ SelectType
  \/ ClickGenerate
  \/ ProgressTick
  \/ FetchResolves
  \/ FetchRejects
  \/ BodyRead

(***************************************************************************)
(* Page texts: strings as sequences of one-character strings               *)
(***************************************************************************)
\* the characters \s matches, among those the texts below are made of
SpaceChars == {" ", "\t", "\n", "\r"}
DigitChars == {"0", "1", "2", "3", "4", "5", "6", "7", "8", "9"}
UpperChars == {"A", "B", "C", "D", "E", "F", "G", "H", "I", "J", "K", "L", "M",
               "N", "O", "P", "Q", "R", "S", "T", "U", "V", "W", "X", "Y", "Z"}
LowerChars == {"a", "b", "c", "d", "e", "f", "g", "h", "i", "j", "k", "l", "m",
               "n", "o", "p", "q", "r", "s", "t", "u", "v", "w", "x", "y", "z"}
\* the characters \w matches
WordChars == UpperChars \cup LowerChars \cup DigitChars \cup {"_"}

\* s.slice(from) with a 0-based from
SliceFrom(s, from) == SubSeq(s, from + 1, Len(s))

\* the number of leading characters of s that are in set
LeadingIn(s, set) ==
  LET stops == {i \in 1..Len(s) : s[i] \notin set} IN
  IF stops = {} THEN Len(s)
  ELSE (CHOOSE i \in stops : \A j \in stops : i <= j) - 1

\* the number of trailing characters of s that are in set
TrailingIn(s, set) ==
  LET stops == {i \in 1..Len(s) : s[i] \notin set} IN
  IF stops = {} THEN Len(s)
  ELSE Len(s) - (CHOOSE i \in stops : \A j \in stops : i >= j)

\* String.prototype.trim()
StrTrim(s) ==
  LET a == LeadingIn(s, SpaceChars) IN
  IF a = Len(s) THEN <<>>
  ELSE SubSeq(s, a + 1, Len(s) - TrailingIn(s, SpaceChars))

\* text.split(/\r?\n/)
RECURSIVE SplitLines(_)
SplitLines(text) ==
  LET breaks == {i \in 1..Len(text) : text[i] = "\n"} IN
  IF breaks = {} THEN <<text>>
  ELSE LET i == CHOOSE b \in breaks : \A c \in breaks : b <= c
           e == IF i > 1 /\ text[i - 1] = "\r" THEN i - 2 ELSE i - 1
       IN <<SubSeq(text, 1, e)>> \o SplitLines(SubSeq(text, i + 1, Len(text)))

\* Array.prototype.join(sep)
RECURSIVE Join(_, _)
Join(parts, sep) ==
  IF parts = <<>> THEN <<>>
  ELSE IF Len(parts) = 1 THEN parts[1]
  ELSE parts[1] \o sep \o Join(Tail(parts), sep)

(***************************************************************************)
(* extractKeyPoints, lines 331-348                                         *)
(***************************************************************************)
\* the length of the match of /^(\s*[-*]|\s*\d+\.)\s+/ in l, 0 when there is none
KeyPointMarkerLen(l) ==
  LET w == LeadingIn(l, SpaceChars)
      r == SliceFrom(l, w)
      d == LeadingIn(r, DigitChars)
      m == IF r # <<>> /\ r[1] \in {"-", "*"} THEN 1
           ELSE IF d > 0 /\ Len(r) > d /\ r[d + 1] = "." THEN d + 1
           ELSE 0
      s == LeadingIn(SliceFrom(r, m), SpaceChars)
  IN IF m > 0 /\ s > 0 THEN w + m + s ELSE 0

IsKeyPointMarker(l) == KeyPointMarkerLen(l) > 0

\* lines.findIndex(marker test), 0-based, -1 when no line passes
FirstBulletIdx(ls) ==
  LET hits == {i \in 1..Len(ls) : IsKeyPointMarker(ls[i])} IN
  IF hits = {} THEN -1
  ELSE (CHOOSE i \in hits : \A j \in hits : i <= j) - 1

\* an intro that is the joined lines as they are
IntroUntrimmed(ls, idx) ==
  IF idx > 0 THEN Join(SubSeq(ls, 1, idx), <<"\n">>) ELSE <<>>

\* firstBulletIdx > 0 ? lines.slice(0, firstBulletIdx).join('\n').trim() : ''
Intro(ls, idx) ==
  IF idx > 0 THEN StrTrim(Join(SubSeq(ls, 1, idx), <<"\n">>)) ELSE <<>>

\* firstBulletIdx >= 0 ? lines.slice(firstBulletIdx) : lines
BulletLines(ls, idx) == IF idx >= 0 THEN SliceFrom(ls, idx) ELSE ls

\* buf.join(' ').trim()
BufText(b) == StrTrim(Join(b, <<" ">>))

\* the lines the texts given to extractKeyPoints are made of
KeyPointLineSet ==
  { <<"-", " ", "a">>,          \* a dash bullet
    <<"1", ".", " ", "b">>,     \* a numbered item
    <<"c">>,                    \* plain text
    <<>>,                       \* an empty line
    <<" ", "d">>,               \* indented text
    <<"-", "x">>,               \* a dash with no space after it
    <<" ", "*", " ", "e">>,     \* an indented asterisk bullet
    <<"-", " ">> }              \* a bullet with no text

\* the texts of 1..n lines of lineSet
TextsOf(lineSet, n) ==
  { Join(ls, <<"\n">>) : ls \in UNION { [1..k -> lineSet] : k \in 1..n } }

\* the text of the worked example: intro line, two dash bullets, the second
\* continued on an indented line
KeyPointsExample ==
  <<"S", "o", "m", "e", " ", "i", "n", "t", "r", "o", " ", "t", "e", "x",
    "t", ".", "\n", "-", " ", "F", "i", "r", "s", "t", " ", "p", "o", "i",
    "n", "t", "\n", "-", " ", "S", "e", "c", "o", "n", "d", " ", "p", "o",
    "i", "n", "t", " ", "c", "o", "n", "t", "i", "n", "u", "e", "s", "\n",
    " ", " ", "h", "e", "r", "e", ".">>

KeyPointTexts == TextsOf(KeyPointLineSet, MaxKeyPointLines) \cup {KeyPointsExample}

KeyPointsInit ==
  /\ keyPointsText \in KeyPointTexts
  /\ bulletLines = <<>>
  /\ bulletIdx = 1
  /\ intro = <<>>
  /\ bullets = <<>>
  /\ buf = <<>>
  /\ keyPointsPc = "start"

keyPointsOthers == <<serverVars, clientVars, outlineVars, cleanVars, cardVars, copyVars>>

\* lines 332-337
KeyPointsSplit ==
  /\ keyPointsPc = "start"
  /\ LET ls == SplitLines(keyPointsText)
         idx == FirstBulletIdx(ls)
     IN /\ intro' = Intro(ls, idx)
        /\ bulletLines' = BulletLines(ls, idx)
  /\ bulletIdx' = 1
  /\ bullets' = <<>>
  /\ buf' = <<>>
  /\ keyPointsPc' = "loop"
  /\ UNCHANGED keyPointsText
  /\ UNCHANGED keyPointsOthers

\* lines 339-341: a marker line closes the bullet in buf and opens the next
KeyPointsMarkerLine ==
  /\ keyPointsPc = "loop"
  /\ bulletIdx <= Len(bulletLines)
  /\ LET l == bulletLines[bulletIdx] IN
       /\ IsKeyPointMarker(l)
       /\ bullets' = IF buf # <<>> THEN Append(bullets, BufText(buf)) ELSE bullets
       /\ buf' = <<StrTrim(SliceFrom(l, KeyPointMarkerLen(l)))>>
  /\ bulletIdx' = bulletIdx + 1
  /\ UNCHANGED <<keyPointsText, bulletLines, intro, keyPointsPc>>
  /\ UNCHANGED keyPointsOthers

\* lines 342-344: a line with text that is no marker line
KeyPointsTextLine ==
  /\ keyPointsPc = "loop"
  /\ bulletIdx <= Len(bulletLines)
  /\ LET l == bulletLines[bulletIdx] IN
       /\ ~IsKeyPointMarker(l)
       /\ StrTrim(l) # <<>>
       /\ buf' = Append(buf, StrTrim(l))
  /\ bulletIdx' = bulletIdx + 1
  /\ UNCHANGED <<keyPointsText, bulletLines, intro, bullets, keyPointsPc>>
  /\ UNCHANGED keyPointsOthers

\* a line of white space only: neither branch of lines 339-344
KeyPointsBlankLine ==
  /\ keyPointsPc = "loop"
  /\ bulletIdx <= Len(bulletLines)
  /\ LET l == bulletLines[bulletIdx] IN
       /\ ~IsKeyPointMarker(l)
       /\ StrTrim(l) = <<>>
  /\ bulletIdx' = bulletIdx + 1
  /\ UNCHANGED <<keyPointsText, bulletLines, intro, bullets, buf, keyPointsPc>>
  /\ UNCHANGED keyPointsOthers

\* a return that leaves the bullet in buf behind
KeyPointsReturnNoFlush ==
  /\ keyPointsPc = "loop"
  /\ bulletIdx > Len(bulletLines)
  /\ keyPointsPc' = "done"
  /\ UNCHANGED <<keyPointsText, bulletLines, bulletIdx, intro, bullets, buf>>
  /\ UNCHANGED keyPointsOthers

\* lines 346-347
KeyPointsReturn ==
  /\ keyPointsPc = "loop"
  /\ bulletIdx > Len(bulletLines)
  /\ bullets' = IF buf # <<>> THEN Append(bullets, BufText(buf)) ELSE bullets
  /\ keyPointsPc' = "done"
  /\ UNCHANGED <<keyPointsText, bulletLines, bulletIdx, intro, buf>>
  /\ UNCHANGED keyPointsOthers

KeyPointsNext ==
  \/ KeyPointsSplit
  \/ KeyPointsMarkerLine
  \/ KeyPointsTextLine
  \/ KeyPointsBlankLine
  \/ KeyPointsReturn


(***************************************************************************)
(* parseOutline, lines 289-329                                             *)
(***************************************************************************)
\* text.split(/\r?\n/).map((l) => l.trim()).filter(Boolean)
RECURSIVE TrimmedNonEmpty(_)
TrimmedNonEmpty(ls) ==
  IF ls = <<>> THEN <<>>
  ELSE (IF StrTrim(Head(ls)) = <<>> THEN <<>> ELSE <<StrTrim(Head(ls))>>)
         \o TrimmedNonEmpty(Tail(ls))

OutlineLines(text) == TrimmedNonEmpty(SplitLines(text))

\* upper case of the letters [MDCLXVI] that flag i also admits in lower case
RomanUpper(c) ==
  CASE c = "m" -> "M" [] c = "d" -> "D" [] c = "c" -> "C" [] c = "l" -> "L"
    [] c = "x" -> "X" [] c = "v" -> "V" [] c = "i" -> "I" [] OTHER -> c

RomanLetters == {"M", "D", "C", "L", "X", "V", "I", "m", "d", "c", "l", "x", "v", "i"}

\* M{0,4}
RomanThousands == {<<>>, <<"M">>, <<"M", "M">>, <<"M", "M", "M">>, <<"M", "M", "M", "M">>}
\* (CM|CD|D?C{0,3})
RomanHundreds ==
  {<<"C", "M">>, <<"C", "D">>, <<>>, <<"C">>, <<"C", "C">>, <<"C", "C", "C">>,
   <<"D">>, <<"D", "C">>, <<"D", "C", "C">>, <<"D", "C", "C", "C">>}
\* (XC|XL|L?X{0,3})
RomanTens ==
  {<<"X", "C">>, <<"X", "L">>, <<>>, <<"X">>, <<"X", "X">>, <<"X", "X", "X">>,
   <<"L">>, <<"L", "X">>, <<"L", "X", "X">>, <<"L", "X", "X", "X">>}
\* (IX|IV|V?I{0,3})
RomanUnits ==
  {<<"I", "X">>, <<"I", "V">>, <<>>, <<"I">>, <<"I", "I">>, <<"I", "I", "I">>,
   <<"V">>, <<"V", "I">>, <<"V", "I", "I">>, <<"V", "I", "I", "I">>}

\* w is matched as a whole by M{0,4}(CM|CD|D?C{0,3})(XC|XL|L?X{0,3})(IX|IV|V?I{0,3})
IsRomanNumeral(w) ==
  LET u == [i \in 1..Len(w) |-> RomanUpper(w[i])] IN
  \E a, b, c \in 0..Len(u) :
    /\ a <= b /\ b <= c
    /\ SubSeq(u, 1, a) \in RomanThousands
    /\ SubSeq(u, a + 1, b) \in RomanHundreds
    /\ SubSeq(u, b + 1, c) \in RomanTens
    /\ SubSeq(u, c + 1, Len(u)) \in RomanUnits

\* the length of the match of romanRe at the start of line, 0 when there is none:
\* the numeral is followed by '.', so it is the whole run of numeral letters
RomanLen(line) ==
  LET n == LeadingIn(line, RomanLetters) IN
  IF n >= 1 /\ Len(line) > n /\ line[n + 1] = "." /\ IsRomanNumeral(SubSeq(line, 1, n))
  THEN n + 1 ELSE 0

\* the length of the match of /^#\s+/ at the start of line, 0 when there is none
HeadingLen(line) ==
  LET s == LeadingIn(SliceFrom(line, 1), SpaceChars) IN
  IF line # <<>> /\ line[1] = "#" /\ s > 0 THEN 1 + s ELSE 0

\* romanRe.test(line) || /^#\s+/.test(line)
IsSectionLine(line) == RomanLen(line) > 0 \/ HeadingLen(line) > 0

\* line.replace(romanRe, '').replace(/^#\s+/, '').trim()
SectionTitle(line) ==
  LET r == SliceFrom(line, RomanLen(line)) IN StrTrim(SliceFrom(r, HeadingLen(r)))

\* the length of the match of /^([A-Z])\.?\s+/ at the start of line, 0 when
\* there is none; group 2, (.*), is the rest of the line
LetterLen(line) ==
  LET d == IF Len(line) >= 2 /\ line[2] = "." THEN 1 ELSE 0
      s == LeadingIn(SliceFrom(line, 1 + d), SpaceChars)
  IN IF line # <<>> /\ line[1] \in UpperChars /\ s > 0 THEN 1 + d + s ELSE 0

\* the length of the match of /^(\d+)\.?\s+/ at the start of line, 0 when there is none
NumberedLen(line) ==
  LET n == LeadingIn(line, DigitChars)
      d == IF Len(line) > n /\ line[n + 1] = "." THEN 1 ELSE 0
      s == LeadingIn(SliceFrom(line, n + d), SpaceChars)
  IN IF n > 0 /\ s > 0 THEN n + d + s ELSE 0

\* the length of the match of /^[-*]\s+/ at the start of line, 0 when there is none
BulletLen(line) ==
  LET s == LeadingIn(SliceFrom(line, 1), SpaceChars) IN
  IF line # <<>> /\ line[1] \in {"-", "*"} /\ s > 0 THEN 1 + s ELSE 0

\* numbered[2] ? numbered[2].trim() : numbered[1].trim()
\* (group 2 of the first expression, group 1 of the second, which has no group 2)
PointText(line) ==
  IF NumberedLen(line) > 0
  THEN LET g2 == SliceFrom(line, NumberedLen(line)) IN
       IF g2 # <<>> THEN StrTrim(g2) ELSE StrTrim(SubSeq(line, 1, LeadingIn(line, DigitChars)))
  ELSE StrTrim(SliceFrom(line, BulletLen(line)))

\* the three tests of the loop body, in the order the code makes them
IsSubtopicLine(line) == ~IsSectionLine(line) /\ LetterLen(line) > 0
IsPointLine(line) ==
  /\ ~IsSectionLine(line) /\ LetterLen(line) = 0
  /\ (NumberedLen(line) > 0 \/ BulletLen(line) > 0)
IsOtherLine(line) == ~IsSectionLine(line) /\ ~IsSubtopicLine(line) /\ ~IsPointLine(line)

Section(title, subtopics) == [title |-> title, subtopics |-> subtopics]
Subtopic(title, points) == [title |-> title, points |-> points]
OutlineTitle == <<"O", "u", "t", "l", "i", "n", "e">>
DetailsTitle == <<"D", "e", "t", "a", "i", "l", "s">>

\* a push that is left out
PushCurrentNever(secs, cur) == secs

\* sections.push(current) when current is not null
PushCurrent(secs, cur) == IF cur # <<>> THEN Append(secs, cur[1]) ELSE secs

\* the lines the texts given to parseOutline are made of
OutlineLineSet ==
  { <<"I", ".", " ", "a">>,        \* a roman numeral and a dot
    <<"#", " ", "b">>,             \* a level-1 markdown heading
    <<"#", "#", " ", "h">>,        \* a level-2 markdown heading
    <<"A", ".", " ", "c">>,        \* a capital letter and a dot
    <<"C", ".", " ", "d">>,        \* a capital letter that is a roman numeral
    <<"A", " ", "k">>,             \* a capital letter and no dot
    <<"1", ".", " ", "e">>,        \* a numbered item
    <<"-", " ", "f">>,             \* a dash bullet
    <<"g">>,                       \* plain text
    <<>> }                         \* an empty line

OutlineExample ==
  <<"I", ".", " ", "I", "n", "t", "r", "o", "\n", "A", ".", " ", "B", "a",
    "c", "k", "g", "r", "o", "u", "n", "d", "\n", "1", ".", " ", "P", "o",
    "i", "n", "t", " ", "o", "n", "e", "\n", "2", ".", " ", "P", "o", "i",
    "n", "t", " ", "t", "w", "o", "\n", "I", "I", ".", " ", "B", "o", "d",
    "y">>

OutlineTexts == TextsOf(OutlineLineSet, MaxOutlineLines) \cup {OutlineExample}

OutlineInit ==
  /\ outlineText \in OutlineTexts
  /\ lines = <<>>
  /\ lineIdx = 1
  /\ sections = <<>>
  /\ current = <<>>
  /\ currentSub = <<>>
  /\ outlinePc = "start"

outlineOthers == <<serverVars, clientVars, keyPointVars, cleanVars, cardVars, copyVars>>

\* lines 290-293
OutlineSplit ==
  /\ outlinePc = "start"
  /\ lines' = OutlineLines(outlineText)
  /\ lineIdx' = 1
  /\ sections' = <<>>
  /\ current' = <<>>
  /\ currentSub' = <<>>
  /\ outlinePc' = "loop"
  /\ UNCHANGED outlineText
  /\ UNCHANGED outlineOthers

\* lines 299-305
OutlineSectionLine ==
  /\ outlinePc = "loop"
  /\ lineIdx <= Len(lines)
  /\ IsSectionLine(lines[lineIdx])
  /\ sections' = PushCurrent(sections, current)
  /\ current' = <<Section(SectionTitle(lines[lineIdx]), <<>>)>>
  /\ currentSub' = <<>>
  /\ lineIdx' = lineIdx + 1
  /\ UNCHANGED <<outlineText, lines, outlinePc>>
  /\ UNCHANGED outlineOthers

\* lines 306-314
OutlineSubtopicLine ==
  /\ outlinePc = "loop"
  /\ lineIdx <= Len(lines)
  /\ IsSubtopicLine(lines[lineIdx])
  /\ LET g2 == SliceFrom(lines[lineIdx], LetterLen(lines[lineIdx]))
         cur == IF current = <<>> THEN Section(g2, <<>>) ELSE current[1]
         sub == Subtopic(StrTrim(g2), <<>>)
     IN /\ currentSub' = <<sub>>
        /\ current' = <<[cur EXCEPT !.subtopics = Append(@, sub)]>>
  /\ lineIdx' = lineIdx + 1
  /\ UNCHANGED <<outlineText, lines, sections, outlinePc>>
  /\ UNCHANGED outlineOthers

\* a point line whose point is lost when it has to open the subtopic
OutlinePointLineDropsFirst ==
  /\ outlinePc = "loop"
  /\ lineIdx <= Len(lines)
  /\ IsPointLine(lines[lineIdx])
  /\ LET cur == IF current = <<>> THEN Section(OutlineTitle, <<>>) ELSE current[1]
         subs == IF currentSub = <<>>
                 THEN Append(cur.subtopics, Subtopic(DetailsTitle, <<>>))
                 ELSE cur.subtopics
         sub == IF currentSub = <<>> THEN subs[Len(subs)]
                ELSE [subs[Len(subs)] EXCEPT !.points = Append(@, PointText(lines[lineIdx]))]
     IN /\ currentSub' = <<sub>>
        /\ current' = <<[cur EXCEPT !.subtopics = [subs EXCEPT ![Len(subs)] = sub]]>>
  /\ lineIdx' = lineIdx + 1
  /\ UNCHANGED <<outlineText, lines, sections, outlinePc>>
  /\ UNCHANGED outlineOthers

\* lines 315-325; currentSub is the last element of current.subtopics, so the
\* push into currentSub.points shows in both
OutlinePointLine ==
  /\ outlinePc = "loop"
  /\ lineIdx <= Len(lines)
  /\ IsPointLine(lines[lineIdx])
  /\ LET cur == IF current = <<>> THEN Section(OutlineTitle, <<>>) ELSE current[1]
         subs == IF currentSub = <<>>
                 THEN Append(cur.subtopics, Subtopic(DetailsTitle, <<>>))
                 ELSE cur.subtopics
         sub == [subs[Len(subs)] EXCEPT !.points = Append(@, PointText(lines[lineIdx]))]
     IN /\ currentSub' = <<sub>>
        /\ current' = <<[cur EXCEPT !.subtopics = [subs EXCEPT ![Len(subs)] = sub]]>>
  /\ lineIdx' = lineIdx + 1
  /\ UNCHANGED <<outlineText, lines, sections, outlinePc>>
  /\ UNCHANGED outlineOthers

\* a line that passes none of the tests and closes the open subtopic
OutlineOtherLineClosesSubtopic ==
  /\ outlinePc = "loop"
  /\ lineIdx <= Len(lines)
  /\ IsOtherLine(lines[lineIdx])
  /\ currentSub' = <<>>
  /\ lineIdx' = lineIdx + 1
  /\ UNCHANGED <<outlineText, lines, sections, current, outlinePc>>
  /\ UNCHANGED outlineOthers

\* a line that passes none of the tests of lines 299, 306, 315
OutlineOtherLine ==
  /\ outlinePc = "loop"
  /\ lineIdx <= Len(lines)
  /\ IsOtherLine(lines[lineIdx])
  /\ lineIdx' = lineIdx + 1
  /\ UNCHANGED <<outlineText, lines, sections, current, currentSub, outlinePc>>
  /\ UNCHANGED outlineOthers

\* lines 327-328
OutlineReturn ==
  /\ outlinePc = "loop"
  /\ lineIdx > Len(lines)
  /\ sections' = PushCurrent(sections, current)
  /\ outlinePc' = "done"
  /\ UNCHANGED <<outlineText, lines, lineIdx, current, currentSub>>
  /\ UNCHANGED outlineOthers

OutlineNext ==
  \/ OutlineSplit
  \/ OutlineSectionLine
  \/ OutlineSubtopicLine
  \/ OutlinePointLine
  \/ OutlineOtherLine
  \/ OutlineReturn


(***************************************************************************)
(* cleanContent, lines 44-81                                               *)
(***************************************************************************)
UpperSeq == <<"A", "B", "C", "D", "E", "F", "G", "H", "I", "J", "K", "L", "M",
              "N", "O", "P", "Q", "R", "S", "T", "U", "V", "W", "X", "Y", "Z">>
LowerSeq == <<"a", "b", "c", "d", "e", "f", "g", "h", "i", "j", "k", "l", "m",
              "n", "o", "p", "q", "r", "s", "t", "u", "v", "w", "x", "y", "z">>

\* the character both cases of a letter are compared as under flag i
FoldCase(c) ==
  IF c \in UpperChars THEN LowerSeq[CHOOSE i \in 1..26 : UpperSeq[i] = c] ELSE c

\* the literal lit stands in s at 0-based position p, compared under flag i
LitAtFold(s, p, lit) ==
  /\ p >= 0 /\ p + Len(lit) <= Len(s)
  /\ \A i \in 1..Len(lit) : FoldCase(s[p + i]) = FoldCase(lit[i])

\* the literal lit stands in s at 0-based position p, compared exactly
LitAt(s, p, lit) ==
  /\ p >= 0 /\ p + Len(lit) <= Len(s)
  /\ \A i \in 1..Len(lit) : s[p + i] = lit[i]

\* the character of s at 0-based position p is a word character
\* (false outside the string)
IsWordAt(s, p) == p >= 0 /\ p < Len(s) /\ s[p + 1] \in WordChars

\* \b at 0-based position p of s
BoundaryAt(s, p) == IsWordAt(s, p - 1) # IsWordAt(s, p)

\* the number of leading characters of s that are not in set
LeadingNotIn(s, set) ==
  LET stops == {i \in 1..Len(s) : s[i] \in set} IN
  IF stops = {} THEN Len(s)
  ELSE (CHOOSE i \in stops : \A j \in stops : i <= j) - 1

\* preamblePatterns, lines 50-59: each is /^\s*<first>(\s*<second>)?\b[^\n]*\n?/i,
\* given as its alternatives for <first> and its <second> (empty when absent)
preamblePatterns ==
  << [first |-> {<<"H", "e", "r", "e", " ", "i", "s">>,
                 <<"H", "e", "r", "e", " ", "a", "r", "e">>}, second |-> <<>>],
     [first |-> {<<"I", "'", "l", "l">>}, second |-> <<>>],
     [first |-> {<<"I", " ", "c", "a", "n">>}, second |-> <<>>],
     [first |-> {<<"L", "e", "t", " ", "m", "e">>}, second |-> <<>>],
     [first |-> {<<"B", "a", "s", "e", "d", " ", "o", "n">>}, second |-> <<>>],
     [first |-> {<<"G", "i", "v", "e", "n">>}, second |-> <<>>],
     [first |-> {<<"I", "t", " ", "a", "p", "p", "e", "a", "r", "s">>}, second |-> <<>>],
     [first |-> {<<"N", "o", "t", "e", ":">>}, second |-> <<"T", "h", "i", "s">>] >>

\* the 0-based position after the phrase of pattern rxp standing at position p
\* of s, -1 when it does not stand there
PhraseEnd(s, p, rxp) ==
  LET hits == {f \in rxp.first : LitAtFold(s, p, f)} IN
  IF hits = {} THEN -1
  ELSE LET f == CHOOSE h \in hits : TRUE
           q == p + Len(f)
       IN IF rxp.second = <<>> THEN q
          ELSE LET r == q + LeadingIn(SliceFrom(s, q), SpaceChars) IN
               IF LitAtFold(s, r, rxp.second) THEN r + Len(rxp.second) ELSE -1

\* the length of the match of pattern rxp at the start of s, 0 when there is none
PreambleLen(s, rxp) ==
  LET w == LeadingIn(s, SpaceChars)
      e == PhraseEnd(s, w, rxp)
  IN IF e < 0 \/ ~BoundaryAt(s, e) THEN 0
     ELSE LET rest == SliceFrom(s, e)
              l == LeadingNotIn(rest, {"\n"})
          IN e + l + (IF Len(rest) > l /\ rest[l + 1] = "\n" THEN 1 ELSE 0)

\* preamblePatterns.forEach((rx) => { cleaned = cleaned.replace(rx, '') }),
\* from pattern k on
RECURSIVE StripPreambles(_, _)
StripPreambles(s, k) ==
  IF k > Len(preamblePatterns) THEN s
  ELSE StripPreambles(SliceFrom(s, PreambleLen(s, preamblePatterns[k])), k + 1)

\* \d+\. stands in s at 0-based position p
NumberDotAt(s, p) ==
  LET n == LeadingIn(SliceFrom(s, p), DigitChars) IN
  p >= 0 /\ n > 0 /\ p + n < Len(s) /\ s[p + n + 1] = "."

\* c followed by \s stands in s at 0-based position p
CharSpaceAt(s, p, c) ==
  p >= 0 /\ p + 1 < Len(s) /\ s[p + 1] = c /\ s[p + 2] \in SpaceChars

\* /\b(Question:|Q:|\d+\.|\*\s|\-\s)/i matches at 0-based position p of s
FlashcardMarkerAt(s, p) ==
  /\ BoundaryAt(s, p)
  /\ \/ LitAtFold(s, p, <<"Q", "u", "e", "s", "t", "i", "o", "n", ":">>)
     \/ LitAtFold(s, p, <<"Q", ":">>)
     \/ NumberDotAt(s, p)
     \/ CharSpaceAt(s, p, "*")
     \/ CharSpaceAt(s, p, "-")

\* ^ under flag m: the start of the text or the position after a line terminator
LineStartAt(s, p) == p = 0 \/ (p > 0 /\ p <= Len(s) /\ s[p] \in {"\n", "\r"})

\* /^(#|\*\s|\-\s|\d+\.|I\.|II\.)/m matches at 0-based position p of s
StructuralMarkerAt(s, p) ==
  /\ LineStartAt(s, p)
  /\ \/ LitAt(s, p, <<"#">>)
     \/ CharSpaceAt(s, p, "*")
     \/ CharSpaceAt(s, p, "-")
     \/ NumberDotAt(s, p)
     \/ LitAt(s, p, <<"I", ".">>)
     \/ LitAt(s, p, <<"I", "I", ".">>)

\* the marker expression of the branch taken for type, lines 65-72
MarkerAt(s, p, type) ==
  IF type = "flashcards" THEN FlashcardMarkerAt(s, p) ELSE StructuralMarkerAt(s, p)

\* cleaned.search(rx): the least position with a match, -1 when there is none
MarkerSearch(s, type) ==
  LET hits == {p \in 0..(Len(s) - 1) : MarkerAt(s, p, type)} IN
  IF hits = {} THEN -1 ELSE CHOOSE p \in hits : \A q \in hits : p <= q

\* a cleaner that cuts at the last marker
SliceToLastMarker(s, type) ==
  LET hits == {p \in 0..(Len(s) - 1) : MarkerAt(s, p, type)} IN
  IF hits = {} THEN s ELSE SliceFrom(s, CHOOSE p \in hits : \A q \in hits : q <= p)

\* if (idx > 0) cleaned = cleaned.slice(idx)
SliceToMarker(s, type) ==
  LET idx == MarkerSearch(s, type) IN IF idx > 0 THEN SliceFrom(s, idx) ELSE s

\* the phrases of the expression of line 75
closingPhrases ==
  { <<"I", " ", "h", "o", "p", "e", " ", "t", "h", "i", "s", " ", "h", "e", "l", "p", "s">>,
    <<"L", "e", "t", " ", "m", "e", " ", "k", "n", "o", "w", " ", "i", "f", " ", "y", "o",
      "u", " ", "n", "e", "e", "d">>,
    <<"W", "o", "u", "l", "d", " ", "y", "o", "u", " ", "l", "i", "k", "e", " ", "m", "e">>,
    <<"F", "e", "e", "l", " ", "f", "r", "e", "e", " ", "t", "o", " ", "a", "s", "k">> }

\* the 0-based positions of s where a closing phrase stands
ClosingAt(s) == {p \in 0..(Len(s) - 1) : \E ph \in closingPhrases : LitAtFold(s, p, ph)}

\* cleaned.replace(/(?:\n|\s)*(?:...)[\s\S]*$/i, ''): the match starts at the white
\* space before the first phrase and runs to the end of the text
StripClosing(s) ==
  IF ClosingAt(s) = {} THEN s
  ELSE LET q == CHOOSE p \in ClosingAt(s) : \A r \in ClosingAt(s) : p <= r
           head == SubSeq(s, 1, q)
       IN SubSeq(head, 1, q - TrailingIn(head, SpaceChars))

\* cleaned.replace(/\n{3,}/g, '\n\n')
CollapseNewlines(s) ==
  LET kept == {i \in 1..Len(s) :
                 ~(i >= 3 /\ s[i] = "\n" /\ s[i - 1] = "\n" /\ s[i - 2] = "\n")}
  IN [j \in 1..Cardinality(kept) |->
        s[CHOOSE i \in kept : Cardinality({k \in kept : k <= i}) = j]]

\* a cleaner that returns without the trims of lines 75 and 78
CleanContentUntrimmed(raw, type) ==
  IF raw = <<>> THEN <<>>
  ELSE CollapseNewlines(StripClosing(SliceToMarker(StripPreambles(raw, 1), type)))

\* cleanContent(content, type), raw standing for content
CleanContent(raw, type) ==
  IF raw = <<>> THEN <<>>
  ELSE StrTrim(CollapseNewlines(StrTrim(StripClosing(
         SliceToMarker(StripPreambles(raw, 1), type)))))

\* the lines the texts given to cleanContent are made of
CleanLineSet ==
  { <<"H", "e", "r", "e", " ", "i", "s", " ", "x">>,     \* a preamble line
    <<"I", "'", "l", "l", " ", "y">>,                    \* another one
    <<"z">>,                                             \* plain text
    <<"#", " ", "T">>,                                   \* a heading
    <<"-", " ", "b">>,                                   \* a dash bullet
    <<"1", ".", " ", "c">>,                              \* a numbered item
    <<"I", "I", "I", ".", " ", "d">>,                    \* a roman-numeral item
    <<"Q", ":", " ", "e">>,                              \* a question label
    <<"I", " ", "h", "o", "p", "e", " ", "t", "h", "i", "s", " ", "h", "e", "l", "p", "s">>,
    <<>> }                                               \* an empty line

\* 'Here is your summary:', '# Title', 'Body text'
CleanExample ==
  <<"H", "e", "r", "e", " ", "i", "s", " ", "y", "o", "u", "r", " ", "s",
    "u", "m", "m", "a", "r", "y", ":", "\n", "#", " ", "T", "i", "t", "l",
    "e", "\n", "B", "o", "d", "y", " ", "t", "e", "x", "t">>

\* two lines of text with three empty lines between them
CleanGapExample == <<" ", "z", "\n", "\n", "\n", "\n", "z", " ">>

CleanTexts == TextsOf(CleanLineSet, MaxCleanLines) \cup {CleanExample, CleanGapExample}

\* the kinds: 'flashcards' takes the branch of line 66, every other kind that of line 70
CleanTypes == {"summary", "flashcards", "outline"}

CleanInit ==
  /\ cleanInput \in CleanTexts
  /\ cleanType \in CleanTypes
  /\ cleaned = <<>>
  /\ cleanedAgain = <<>>
  /\ cleanPc = "start"

cleanOthers == <<serverVars, clientVars, keyPointVars, outlineVars, cardVars, copyVars>>

\* cleanContent(content, type)
Clean ==
  /\ cleanPc = "start"
  /\ cleaned' = CleanContent(cleanInput, cleanType)
  /\ cleanPc' = "cleaned"
  /\ UNCHANGED <<cleanInput, cleanType, cleanedAgain>>
  /\ UNCHANGED cleanOthers

\* cleanContent applied to its own result, with the same type
CleanAgain ==
  /\ cleanPc = "cleaned"
  /\ cleanedAgain' = CleanContent(cleaned, cleanType)
  /\ cleanPc' = "again"
  /\ UNCHANGED <<cleanInput, cleanType, cleaned>>
  /\ UNCHANGED cleanOthers

CleanNext ==
  \/ Clean
  \/ CleanAgain


(***************************************************************************)
(* formatContent, case 'flashcards', lines 518-569                         *)
(***************************************************************************)
QuestionLabel == <<"Q", "u", "e", "s", "t", "i", "o", "n", ":">>
QLabel == <<"Q", ":">>
AnswerLabel == <<"A", "n", "s", "w", "e", "r", ":">>
ALabel == <<"A", ":">>

\* the white space characters of s right before 0-based position t, from
\* position lo on
WsRunBefore(s, t, lo) == TrailingIn(SubSeq(s, lo + 1, t), SpaceChars)

\* the white space characters of s from 0-based position p on
WsRunAt(s, p) == LeadingIn(SliceFrom(s, p), SpaceChars)

\* \n\s*\n matches at 0-based position e of s
BlankLineAt(s, e) ==
  /\ e < Len(s) /\ s[e + 1] = "\n"
  /\ \E i \in (e + 2)..(e + 1 + WsRunAt(s, e + 1)) : s[i] = "\n"

\* \n\s*<lab> matches at 0-based position e of s, under flag i
LabelLineAt(s, e, lab) ==
  e < Len(s) /\ s[e + 1] = "\n" /\ LitAtFold(s, e + 1 + WsRunAt(s, e + 1), lab)

\* \n\s*\d+ matches at 0-based position e of s
NumberLineAt(s, e) ==
  /\ e < Len(s) /\ s[e + 1] = "\n"
  /\ LET d == e + 1 + WsRunAt(s, e + 1) IN d < Len(s) /\ s[d + 1] \in DigitChars

\* the lookahead that ends the answer of patterns[0] and patterns[1]:
\* (?=\n\s*\n|\n\s*Question:|\n\s*Q:|$)
LabelledEndAt(s, e) ==
  \/ BlankLineAt(s, e)
  \/ LabelLineAt(s, e, QuestionLabel)
  \/ LabelLineAt(s, e, QLabel)
  \/ e = Len(s)

\* the lookahead that ends the answer of patterns[2]: (?=\n\s*\n|\n\s*\d+[\).]?|$)
NumberedEndAt(s, e) == BlankLineAt(s, e) \/ NumberLineAt(s, e) \/ e = Len(s)

\* the least element of a non-empty set of positions
First(ps) == CHOOSE p \in ps : \A q \in ps : p <= q

\* what exec returns when it finds nothing
NoMatch == [found |-> FALSE, index |-> 0, end |-> 0,
            m1 |-> <<>>, m2 |-> <<>>, m3 |-> <<>>, m4 |-> <<>>]

\* the 0-based positions after b where alab stands right after white space
LabelledAnswers(s, b, alab) ==
  {t \in (b + 1)..(Len(s) - 1) : LitAtFold(s, t, alab) /\ s[t] \in SpaceChars}

\* the 0-based positions from lastIndex from where patterns[0] or
\* patterns[1] matches: the question label stands there and an answer label
\* follows it after white space
LabelledStarts(s, from, qlab, alab) ==
  {a \in from..(Len(s) - 1) :
     LitAtFold(s, a, qlab) /\ LabelledAnswers(s, a + Len(qlab), alab) # {}}

\* the first 0-based position from c on where the lookahead of patterns[0]
\* and patterns[1] holds
LabelledEnd(s, c) == First({e \in c..Len(s) : LabelledEndAt(s, e)})

\* the match with the question label at a, the question from b, the answer
\* label at t and the answer from c to e: the question group runs lazily to
\* the white space before the label
LabelledMatch(s, a, b, t, c, e) ==
  [found |-> TRUE, index |-> a, end |-> e,
   m1 |-> SubSeq(s, a + 1, b),
   m2 |-> SubSeq(s, b + 1, t - WsRunBefore(s, t, b)),
   m3 |-> SubSeq(s, t + 1, c),
   m4 |-> SubSeq(s, c + 1, e)]

\* the match whose answer label stands at t
LabelledMatchTo(s, a, b, t, alab) ==
  LabelledMatch(s, a, b, t, t + Len(alab), LabelledEnd(s, t + Len(alab)))

\* the match that starts at a: its answer label is the first one that
\* follows white space
LabelledMatchAt(s, a, qlab, alab) ==
  LabelledMatchTo(s, a, a + Len(qlab),
                  First(LabelledAnswers(s, a + Len(qlab), alab)), alab)

\* exec of /(<qlab>)([\s\S]*?)(?:\n|\s)+?(<alab>)([\s\S]*?)(?=...)/gi from
\* lastIndex from: the leftmost match
LabelledExec(s, from, qlab, alab) ==
  IF LabelledStarts(s, from, qlab, alab) = {} THEN NoMatch
  ELSE LabelledMatchAt(s, First(LabelledStarts(s, from, qlab, alab)), qlab, alab)

\* the length of (Answer:|A:) at 0-based position p of s, 0 when neither stands there
AnswerLabelLen(s, p) ==
  IF LitAtFold(s, p, AnswerLabel) THEN Len(AnswerLabel)
  ELSE IF LitAtFold(s, p, ALabel) THEN Len(ALabel) ELSE 0

\* (?:^|\n) matches at 0-based position a of s
LineBreakAt(s, a) == a = 0 \/ (a < Len(s) /\ s[a + 1] = "\n")

\* the 0-based position after (?:^|\n)\s* matched at a
AfterLineBreak(s, a) ==
  (IF a = 0 THEN 0 ELSE a + 1) + WsRunAt(s, IF a = 0 THEN 0 ELSE a + 1)

\* the number of digits of s from 0-based position p on
DigitsAt(s, p) == LeadingIn(SliceFrom(s, p), DigitChars)

\* the 0-based position after [\).]? matched at p
AfterPunct(s, p) == IF p < Len(s) /\ s[p + 1] \in {")", "."} THEN p + 1 ELSE p

\* the 0-based position after \d+[\).]? matched at p
AfterNumber(s, p) == AfterPunct(s, p + DigitsAt(s, p))

\* (?:^|\n)\s*\d+[\).]?\s+ matches at 0-based position a of s
NumberedHeadAt(s, a) ==
  /\ LineBreakAt(s, a)
  /\ DigitsAt(s, AfterLineBreak(s, a)) > 0
  /\ WsRunAt(s, AfterNumber(s, AfterLineBreak(s, a))) > 0

\* the white space that follows the number of the head matched at a, and the
\* 0-based position after it
NumberedHeadWs(s, a) == WsRunAt(s, AfterNumber(s, AfterLineBreak(s, a)))
NumberedHeadEnd(s, a) == AfterNumber(s, AfterLineBreak(s, a)) + NumberedHeadWs(s, a)

\* the 0-based positions after x where Answer: or A: stands right after white space
NumberedAnswers(s, x) ==
  {t \in (x + 1)..(Len(s) - 1) : AnswerLabelLen(s, t) > 0 /\ s[t] \in SpaceChars}

\* the 0-based position of the answer label of a match of patterns[2] whose head
\* ends at x after ws white space characters, -1 when there is none: the first
\* label after the item text, or else the label right after the number when at
\* least two white space characters separate them
NumberedLabelPos(s, x, ws) ==
  IF NumberedAnswers(s, x) # {} THEN First(NumberedAnswers(s, x))
  ELSE IF ws >= 2 /\ AnswerLabelLen(s, x) > 0 THEN x
  ELSE -1

\* the 0-based positions from lastIndex from where patterns[2] matches
NumberedStarts(s, from) ==
  {a \in from..(Len(s) - 1) :
     /\ NumberedHeadAt(s, a)
     /\ NumberedLabelPos(s, NumberedHeadEnd(s, a), NumberedHeadWs(s, a)) >= 0}

\* the first 0-based position from y on where the lookahead of patterns[2] holds
NumberedEnd(s, y) == First({e \in y..Len(s) : NumberedEndAt(s, e)})

\* the match that starts at a, with the item text from x, the answer label
\* from t to c and the answer from y to e
NumberedMatch(s, a, x, t, c, y, e) ==
  [found |-> TRUE, index |-> a, end |-> e,
   m1 |-> IF t > x THEN SubSeq(s, x + 1, t - WsRunBefore(s, t, x)) ELSE <<>>,
   m2 |-> SubSeq(s, t + 1, c),
   m3 |-> SubSeq(s, y + 1, e),
   m4 |-> <<>>]

\* the match whose answer label ends at c: \s* takes the white space after it
NumberedMatchFrom(s, a, x, t, c) ==
  NumberedMatch(s, a, x, t, c, c + WsRunAt(s, c), NumberedEnd(s, c + WsRunAt(s, c)))

\* the match whose answer label stands at t
NumberedMatchTo(s, a, x, t) == NumberedMatchFrom(s, a, x, t, t + AnswerLabelLen(s, t))

\* the match that starts at a
NumberedMatchAt(s, a) ==
  NumberedMatchTo(s, a, NumberedHeadEnd(s, a),
                  NumberedLabelPos(s, NumberedHeadEnd(s, a), NumberedHeadWs(s, a)))

\* exec of patterns[2] from lastIndex from: the leftmost match
NumberedExec(s, from) ==
  IF NumberedStarts(s, from) = {} THEN NoMatch
  ELSE NumberedMatchAt(s, First(NumberedStarts(s, from)))

\* patterns[k - 1].exec(cleanedContent) with lastIndex from
Exec(k, s, from) ==
  CASE k = 1 -> LabelledExec(s, from, QuestionLabel, AnswerLabel)
    [] k = 2 -> LabelledExec(s, from, QLabel, ALabel)
    [] OTHER -> NumberedExec(s, from)

\* the 0-based positions of s where \b(Answer:|A:)\b matches
AnswerLabelWords(s) ==
  {p \in 0..(Len(s) - 1) :
     /\ BoundaryAt(s, p)
     /\ AnswerLabelLen(s, p) > 0
     /\ BoundaryAt(s, p + AnswerLabelLen(s, p))}

\* s.replace(/\b(Answer:|A:)\b[\s\S]*$/i, '')
CutAtAnswerLabel(s) ==
  IF AnswerLabelWords(s) = {} THEN s ELSE SubSeq(s, 1, First(AnswerLabelWords(s)))

\* s.replace(/^\d+[\).]?\s*/, '')
StripNumber(s) ==
  IF DigitsAt(s, 0) = 0 THEN s
  ELSE SliceFrom(s, AfterNumber(s, 0) + WsRunAt(s, AfterNumber(s, 0)))

\* qRaw.replace(/^[\s\-*]+/, '').replace(<answer label on>).replace(<number>).trim()
QuestionOf(qRaw) ==
  StrTrim(StripNumber(CutAtAnswerLabel(
    SliceFrom(qRaw, LeadingIn(qRaw, SpaceChars \cup {"-", "*"})))))

\* an answer that is the raw group as it is
AnswerOfUntrimmed(aRaw) == aRaw

\* aRaw.replace(/^\s*-\s*/, '').trim()
AnswerOf(aRaw) ==
  IF WsRunAt(aRaw, 0) < Len(aRaw) /\ aRaw[WsRunAt(aRaw, 0) + 1] = "-"
  THEN StrTrim(SliceFrom(aRaw, WsRunAt(aRaw, 0) + 1 + WsRunAt(aRaw, WsRunAt(aRaw, 0) + 1)))
  ELSE StrTrim(aRaw)

\* lines 538-549: m[2] || m[1] and m[4] || m[3], then the replacements
MatchCard(m) ==
  [question |-> QuestionOf(IF m.m2 # <<>> THEN m.m2 ELSE m.m1),
   answer |-> AnswerOf(IF m.m4 # <<>> THEN m.m4 ELSE m.m3)]

\* line 551
Accepted(card) ==
  /\ card.question # <<>> /\ card.answer # <<>>
  /\ Len(card.question) > 2 /\ Len(card.answer) > 1

\* lines 551-552
PushIfAccepted(cards, card) == IF Accepted(card) THEN Append(cards, card) ELSE cards

\* the 0-based positions of s where /\n\s*\n/ matches
BlankLines(s) == {e \in 0..(Len(s) - 1) : BlankLineAt(s, e)}

\* the number of characters of s up to the end of the match of /\n\s*\n/ at
\* 0-based position e: \s* is greedy, so the match ends with the last line
\* break of the white space
BlankLineEnd(s, e) ==
  CHOOSE i \in (e + 2)..(e + 1 + WsRunAt(s, e + 1)) :
    /\ s[i] = "\n"
    /\ \A j \in (i + 1)..(e + 1 + WsRunAt(s, e + 1)) : s[j] # "\n"

\* cleanedContent.split(/\n\s*\n/)
RECURSIVE SplitBlank(_)
SplitBlank(s) ==
  IF BlankLines(s) = {} THEN <<s>>
  ELSE <<SubSeq(s, 1, First(BlankLines(s)))>>
         \o SplitBlank(SliceFrom(s, BlankLineEnd(s, First(BlankLines(s)))))

\* the length of (?:Question:|Q:) at 0-based position p of s, 0 when neither
\* stands there
QuestionLabelLen(s, p) ==
  IF LitAtFold(s, p, QuestionLabel) THEN Len(QuestionLabel)
  ELSE IF LitAtFold(s, p, QLabel) THEN Len(QLabel) ELSE 0

\* the 0-based position after (?:\d+[\).]?\s*)? matched at p
AfterOptionalNumber(s, p) ==
  IF DigitsAt(s, p) > 0 THEN AfterNumber(s, p) + WsRunAt(s, AfterNumber(s, p)) ELSE p

\* the 0-based position of the question label of the expression of line 562
\* matched at a
InlineLabelPos(s, a) == AfterOptionalNumber(s, AfterLineBreak(s, a))

\* the 0-based position after the label at u and the white space after it
AfterQuestionLabel(s, u) == u + QuestionLabelLen(s, u) + WsRunAt(s, u + QuestionLabelLen(s, u))

\* (?:^|\n)\s*(?:\d+[\).]?\s*)?(?:Question:|Q:)\s* at 0-based position a of s:
\* the position after the white space that follows the label, -1 when the
\* head does not match there
InlineHead(s, a) ==
  IF LineBreakAt(s, a) /\ QuestionLabelLen(s, InlineLabelPos(s, a)) > 0
  THEN AfterQuestionLabel(s, InlineLabelPos(s, a))
  ELSE -1

\* the 0-based positions from x on where Answer: or A: stands
InlineAnswers(s, x) == {t \in x..(Len(s) - 1) : AnswerLabelLen(s, t) > 0}

\* the 0-based positions where the expression of line 562 matches
InlineStarts(s) ==
  {a \in 0..(Len(s) - 1) :
     InlineHead(s, a) >= 0 /\ InlineAnswers(s, InlineHead(s, a)) # {}}

\* the match with the question from x, the answer label from t to c: the
\* question runs lazily to the white space before the label, the answer from
\* the white space after it to the end of the section
InlineMatch(s, x, t, c) ==
  [found |-> TRUE,
   m1 |-> SubSeq(s, x + 1, t - WsRunBefore(s, t, x)),
   m2 |-> SliceFrom(s, c + WsRunAt(s, c))]

\* the match whose answer label stands at t
InlineMatchTo(s, x, t) == InlineMatch(s, x, t, t + AnswerLabelLen(s, t))

\* the match whose question starts at x: its answer label is the first one
InlineMatchFrom(s, x) == InlineMatchTo(s, x, First(InlineAnswers(s, x)))

\* section.match(...), line 562: the first line start with a question label
\* that an answer label follows
InlineQA(s) ==
  IF InlineStarts(s) = {} THEN [found |-> FALSE, m1 |-> <<>>, m2 |-> <<>>]
  ELSE InlineMatchFrom(s, InlineHead(s, First(InlineStarts(s))))

\* lines 564-566: the card of the match, if q and a are not empty
InlineCards(q, a) ==
  IF q # <<>> /\ a # <<>> THEN <<[question |-> q, answer |-> a]>> ELSE <<>>

\* lines 563-567: the card of a match of a section, if it has one
MatchCards(inlineQA) ==
  IF inlineQA.found
  THEN InlineCards(StrTrim(CutAtAnswerLabel(inlineQA.m1)), StrTrim(inlineQA.m2))
  ELSE <<>>

\* lines 562-567: the card of a section, if it has one
SectionCards(s) == MatchCards(InlineQA(s))

\* lines 560-568
RECURSIVE FallbackCards(_)
FallbackCards(secs) ==
  IF secs = <<>> THEN <<>>
  ELSE SectionCards(Head(secs)) \o FallbackCards(Tail(secs))

\* the blocks that the texts handed to formatContent are made of
CardBlockSet ==
  \* a labelled block
  { <<"Q", "u", "e", "s", "t", "i", "o", "n", ":", " ", "a", "b", "c", "\n",
      "A", "n", "s", "w", "e", "r", ":", " ", "y", "z">>,
  \* another one, with more white space
    <<"Q", "u", "e", "s", "t", "i", "o", "n", ":", " ", " ", "x", "y", "z",
      " ", "\n", "A", "n", "s", "w", "e", "r", ":", " ", " ", "u", "v">>,
  \* a question of two characters
    <<"Q", "u", "e", "s", "t", "i", "o", "n", ":", " ", "a", "b", "\n", "A",
      "n", "s", "w", "e", "r", ":", " ", "y", "z">>,
  \* an answer of one character
    <<"Q", "u", "e", "s", "t", "i", "o", "n", ":", " ", "a", "b", "d", "\n",
      "A", "n", "s", "w", "e", "r", ":", " ", "y">>,
  \* the short labels
    <<"Q", ":", " ", "a", "b", "c", "\n", "A", ":", " ", "y", "z">>,
  \* a numbered item with an inline answer
    <<"1", ".", " ", "a", "b", "c", " ", "A", "n", "s", "w", "e", "r", ":",
      " ", "y", "z">>,
  \* a numbered, labelled block
    <<"1", ".", " ", "Q", "u", "e", "s", "t", "i", "o", "n", ":", " ", "a",
      "b", "c", "\n", "A", "n", "s", "w", "e", "r", ":", " ", "y", "z">>,
  \* mixed labels
    <<"Q", ":", " ", "a", "b", "c", "\n", "A", "n", "s", "w", "e", "r", ":",
      " ", "y", "z">>,
  \* plain text
    <<"a", "b", "c">>,
  \* a question label with no text
    <<"Q", "u", "e", "s", "t", "i", "o", "n", ":", " ", "A", "n", "s", "w",
      "e", "r", ":", " ", "y", "z">> }

\* what separates two blocks: an empty line, or a line break only
CardSeparators == {<<"\n", "\n">>, <<"\n">>}

\* 'Question: What is X?', 'Answer: X is Y.', an empty line,
\* 'Question: What is Z?', 'Answer: Z is W.'
CardsExample ==
  <<"Q", "u", "e", "s", "t", "i", "o", "n", ":", " ", "W", "h", "a", "t",
    " ", "i", "s", " ", "X", "?", "\n", "A", "n", "s", "w", "e", "r", ":",
    " ", "X", " ", "i", "s", " ", "Y", ".", "\n", "\n", "Q", "u", "e", "s",
    "t", "i", "o", "n", ":", " ", "W", "h", "a", "t", " ", "i", "s", " ",
    "Z", "?", "\n", "A", "n", "s", "w", "e", "r", ":", " ", "Z", " ", "i",
    "s", " ", "W", ".">>

CardTexts ==
  { Join(bs, sep) : bs \in UNION { [1..k -> CardBlockSet] : k \in 1..MaxCardBlocks },
                    sep \in CardSeparators } \cup {CardsExample}

CardsInit ==
  /\ cardsInput \in CardTexts
  /\ cleanedContent = <<>>
  /\ flashcards = <<>>
  /\ rx = 1
  /\ lastIndex = 0
  /\ cardsPc = "start"

cardsOthers == <<serverVars, clientVars, keyPointVars, outlineVars, cleanVars, copyVars>>

\* line 519
CardsClean ==
  /\ cardsPc = "start"
  /\ cleanedContent' = CleanContent(cardsInput, "flashcards")
  /\ cardsPc' = "patterns"
  /\ UNCHANGED <<cardsInput, flashcards, rx, lastIndex>>
  /\ UNCHANGED cardsOthers

\* lines 537-554: the body of the loop for the match m
CardsMatched(m) ==
  /\ m.found
  /\ lastIndex' = m.end
  /\ flashcards' = PushIfAccepted(flashcards, MatchCard(m))

\* lines 536-554: rx.exec finds a match; its card is pushed if accepted
CardsExecMatch ==
  /\ cardsPc = "patterns"
  /\ CardsMatched(Exec(rx, cleanedContent, lastIndex))
  /\ UNCHANGED <<cardsInput, cleanedContent, rx, cardsPc>>
  /\ UNCHANGED cardsOthers

\* lines 534-536: rx.exec returns null; the next pattern starts at 0, and the
\* loop ends after the last one
CardsExecNull ==
  /\ cardsPc = "patterns"
  /\ ~Exec(rx, cleanedContent, lastIndex).found
  /\ lastIndex' = 0
  /\ IF rx < 3
     THEN rx' = rx + 1 /\ cardsPc' = "patterns"
     ELSE rx' = rx /\ cardsPc' = "fallback"
  /\ UNCHANGED <<cardsInput, cleanedContent, flashcards>>
  /\ UNCHANGED cardsOthers

\* lines 559-569: nothing matched, so the sections between empty lines are tried
CardsFallback ==
  /\ cardsPc = "fallback"
  /\ Len(flashcards) = 0
  /\ flashcards' = FallbackCards(SplitBlank(cleanedContent))
  /\ cardsPc' = "done"
  /\ UNCHANGED <<cardsInput, cleanedContent, rx, lastIndex>>
  /\ UNCHANGED cardsOthers

\* lines 559, 571: some card was pushed, so the fallback is skipped
CardsReturn ==
  /\ cardsPc = "fallback"
  /\ Len(flashcards) # 0
  /\ cardsPc' = "done"
  /\ UNCHANGED <<cardsInput, cleanedContent, flashcards, rx, lastIndex>>
  /\ UNCHANGED cardsOthers

CardsNext ==
  \/ CardsClean
  \/ CardsExecMatch
  \/ CardsExecNull
  \/ CardsFallback
  \/ CardsReturn


(***************************************************************************)
(* Specifications                                                          *)
(***************************************************************************)
(***************************************************************************)
(* handleCopy, lines 405-448                                               *)
(***************************************************************************)
\* what the browser does with each strategy: navigator.clipboard may be
\* missing, writeText resolves or rejects; execCommand('copy') returns true or
\* false, or a DOM call of the block throws
CopyEnvs ==
  [clipboard : {"missing", "resolves", "rejects"},
   textarea : {"true", "false", "throws"},
   selection : {"true", "false", "throws"}]

CopiedToast == Toast("Copied to clipboard")
CopyFailedToast == Destructive("Copy failed")

\* the page shows a result: the Copy button (line 943) and the content
\* element (line 960) are rendered together
CopyClientInit ==
  /\ selectedFile \in {f \in ClientFiles : ~InvalidFileType(f) /\ ~FileTooLarge(f)}
  /\ selectedType \in StudyGuideTypes
  /\ isGenerating = FALSE
  /\ generatedContent = [type |-> selectedType, content |-> "study guide",
                         filename |-> selectedFile.name]
  /\ progress = 0
  /\ toast = Toast("Study guide generated!")
  /\ inflight = {}
  /\ timers = {}
  /\ started = 1

CopyInit ==
  /\ copyEnv \in CopyEnvs
  /\ contentRef = TRUE
  /\ copyText = ""
  /\ tried = <<>>
  /\ copyToasts = <<>>
  /\ textareaInBody = FALSE
  /\ copyPc = "click"

copyOthers == <<serverVars, keyPointVars, outlineVars, cleanVars, cardVars>>
copyClientUnchanged == <<selectedFile, selectedType, isGenerating, progress, toast,
                         inflight, timers, started>>

\* lines 406-413: the guard, getRaw(), and the call of writeText, which is
\* awaited unless the call itself throws
HandleCopy ==
  /\ copyPc = "click"
  /\ IF generatedContent = NoContent
     THEN /\ copyPc' = "done"
          /\ UNCHANGED <<copyText, tried>>
     ELSE /\ copyText' = generatedContent.content
          /\ tried' = Append(tried, "clipboard")
          /\ copyPc' = IF copyEnv.clipboard = "missing" THEN "textarea" ELSE "await"
  /\ UNCHANGED <<copyEnv, contentRef, copyToasts, textareaInBody, generatedContent>>
  /\ UNCHANGED copyClientUnchanged
  /\ UNCHANGED copyOthers

\* writeText resolves: lines 411-412
ClipboardResolves ==
  /\ copyPc = "await" /\ copyEnv.clipboard = "resolves"
  /\ copyToasts' = Append(copyToasts, CopiedToast)
  /\ copyPc' = "done"
  /\ UNCHANGED <<copyEnv, contentRef, copyText, tried, textareaInBody, generatedContent>>
  /\ UNCHANGED copyClientUnchanged
  /\ UNCHANGED copyOthers

\* writeText rejects: catch { }, line 413
ClipboardRejects ==
  /\ copyPc = "await" /\ copyEnv.clipboard = "rejects"
  /\ copyPc' = "textarea"
  /\ UNCHANGED <<copyEnv, contentRef, copyText, tried, copyToasts, textareaInBody,
                 generatedContent>>
  /\ UNCHANGED copyClientUnchanged
  /\ UNCHANGED copyOthers

\* while writeText is pending, a dropped file is accepted (line 152): the
\* result panel unmounts and React sets contentRef.current to null
ContentUnmounts ==
  /\ copyPc = "await" /\ contentRef
  /\ \E file \in ClientFiles :
       /\ ~InvalidFileType(file) /\ ~FileTooLarge(file)
       /\ selectedFile' = file
  /\ generatedContent' = NoContent
  /\ toast' = Toast("File uploaded successfully")
  /\ contentRef' = FALSE
  /\ UNCHANGED <<copyEnv, copyText, tried, copyToasts, textareaInBody, copyPc>>
  /\ UNCHANGED <<selectedType, isGenerating, progress, inflight, timers, started>>
  /\ UNCHANGED copyOthers

\* a block that shows the toast whatever execCommand returns
TextareaCopyAlwaysToasts ==
  /\ copyPc = "textarea"
  /\ tried' = Append(tried, "textarea")
  /\ textareaInBody' = (copyEnv.textarea = "throws")
  /\ IF copyEnv.textarea # "throws"
     THEN copyToasts' = Append(copyToasts, CopiedToast) /\ copyPc' = "done"
     ELSE UNCHANGED copyToasts /\ copyPc' = "selection"
  /\ UNCHANGED <<copyEnv, contentRef, copyText, generatedContent>>
  /\ UNCHANGED copyClientUnchanged
  /\ UNCHANGED copyOthers

\* lines 415-428: the hidden textarea; removeChild is skipped when a call
\* before it throws
TextareaCopy ==
  /\ copyPc = "textarea"
  /\ tried' = Append(tried, "textarea")
  /\ textareaInBody' = (copyEnv.textarea = "throws")
  /\ IF copyEnv.textarea = "true"
     THEN copyToasts' = Append(copyToasts, CopiedToast) /\ copyPc' = "done"
     ELSE UNCHANGED copyToasts /\ copyPc' = "selection"
  /\ UNCHANGED <<copyEnv, contentRef, copyText, generatedContent>>
  /\ UNCHANGED copyClientUnchanged
  /\ UNCHANGED copyOthers

\* lines 430-445: the selection of the content element, when there is one
SelectionCopy ==
  /\ copyPc = "selection"
  /\ IF ~contentRef
     THEN /\ copyPc' = "failed"
          /\ UNCHANGED <<tried, copyToasts>>
     ELSE /\ tried' = Append(tried, "selection")
          /\ IF copyEnv.selection = "true"
             THEN copyToasts' = Append(copyToasts, CopiedToast) /\ copyPc' = "done"
             ELSE UNCHANGED copyToasts /\ copyPc' = "failed"
  /\ UNCHANGED <<copyEnv, contentRef, copyText, textareaInBody, generatedContent>>
  /\ UNCHANGED copyClientUnchanged
  /\ UNCHANGED copyOthers

\* line 447
CopyFailed ==
  /\ copyPc = "failed"
  /\ copyToasts' = Append(copyToasts, CopyFailedToast)
  /\ copyPc' = "done"
  /\ UNCHANGED <<copyEnv, contentRef, copyText, tried, textareaInBody, generatedContent>>
  /\ UNCHANGED copyClientUnchanged
  /\ UNCHANGED copyOthers

CopyNext ==
  \/ HandleCopy
  \/ ClipboardResolves
  \/ ClipboardRejects
  \/ ContentUnmounts
  \/ TextareaCopy
  \/ SelectionCopy
  \/ CopyFailed

vars == <<serverVars, clientVars, textVars>>

\* the text functions at rest
KeyPointsIdle ==
  /\ keyPointsText = <<>>
  /\ bulletLines = <<>>
  /\ bulletIdx = 1
  /\ intro = <<>>
  /\ bullets = <<>>
  /\ buf = <<>>
  /\ keyPointsPc = "idle"

OutlineIdle ==
  /\ outlineText = <<>>
  /\ lines = <<>>
  /\ lineIdx = 1
  /\ sections = <<>>
  /\ current = <<>>
  /\ currentSub = <<>>
  /\ outlinePc = "idle"

CleanIdle ==
  /\ cleanInput = <<>>
  /\ cleanType = "summary"
  /\ cleaned = <<>>
  /\ cleanedAgain = <<>>
  /\ cleanPc = "idle"

CardsIdle ==
  /\ cardsInput = <<>>
  /\ cleanedContent = <<>>
  /\ flashcards = <<>>
  /\ rx = 1
  /\ lastIndex = 0
  /\ cardsPc = "idle"

CopyIdle ==
  /\ copyEnv = [clipboard |-> "missing", textarea |-> "false", selection |-> "false"]
  /\ contentRef = FALSE
  /\ copyText = ""
  /\ tried = <<>>
  /\ copyToasts = <<>>
  /\ textareaInBody = FALSE
  /\ copyPc = "idle"

TextIdle == KeyPointsIdle /\ OutlineIdle /\ CleanIdle /\ CardsIdle /\ CopyIdle


\* the server handling one request
Init == ServerInit /\ ClientInit /\ TextIdle
Next == ServerNext
Spec == Init /\ [][Next]_vars

\* the same under the event loop's scheduling: a handler step that can run
\* does run, an awaited upstream call settles, and the PDF parser emits one of
\* its two events
FairSpec == Init /\ [][Next]_vars /\ WF_vars(Next)

\* the page, with the server seen through its responses
ServerIdle ==
  /\ req = [file |-> NoFile, type |-> "", apiKey |-> ""]
  /\ envKey = ""
  /\ nodeEnv = "production"
  /\ pc = "idle"
  /\ fileExists = FALSE
  /\ reading = "none"
  /\ parseRet = NoText
  /\ parsed = NoText
  /\ content = <<>>
  /\ prompt = NoPrompt
  /\ called = <<>>
  /\ completion = NoCompletion
  /\ lastError = NoError
  /\ thrown = NoError
  /\ responses = <<>>

ClientSpecInit == ServerIdle /\ ClientInit /\ TextIdle
ClientSpec == ClientSpecInit /\ [][ClientNext]_vars

\* extractKeyPoints applied to one text
KeyPointsSpecInit ==
  ServerIdle /\ ClientInit /\ KeyPointsInit /\ OutlineIdle /\ CleanIdle /\ CardsIdle
    /\ CopyIdle
KeyPointsSpec == KeyPointsSpecInit /\ [][KeyPointsNext]_vars

\* parseOutline applied to one text
OutlineSpecInit ==
  ServerIdle /\ ClientInit /\ KeyPointsIdle /\ OutlineInit /\ CleanIdle /\ CardsIdle
    /\ CopyIdle
OutlineSpec == OutlineSpecInit /\ [][OutlineNext]_vars

\* cleanContent applied to one text, and once more to its result
CleanSpecInit ==
  ServerIdle /\ ClientInit /\ KeyPointsIdle /\ OutlineIdle /\ CleanInit /\ CardsIdle
    /\ CopyIdle
CleanSpec == CleanSpecInit /\ [][CleanNext]_vars

CardsSpecInit ==
  ServerIdle /\ ClientInit /\ KeyPointsIdle /\ OutlineIdle /\ CleanIdle /\ CardsInit
    /\ CopyIdle

CardsSpec == CardsSpecInit /\ [][CardsNext]_vars

\* one click on the Copy button of a page that shows a result
CopySpecInit ==
  ServerIdle /\ CopyClientInit /\ KeyPointsIdle /\ OutlineIdle /\ CleanIdle /\ CardsIdle
    /\ CopyInit
CopySpec == CopySpecInit /\ [][CopyNext]_vars


(***************************************************************************)
(* Properties of the server (checked under Spec)                           *)
(***************************************************************************)
Responded(status) == Len(responses) = 1 /\ responses[1].status = status

\* C1: the models are called in the order of the list, one call per model; once
\* a call has succeeded it is the last call made, and a 200 response carries
\* the content generated by the model of that call (a completion with content
\* is answered with 200).
C1_ModelsInOrderUntilSuccess ==
  /\ Len(called) <= Len(models)
  /\ \A i \in 1..Len(called) : called[i] = models[i]
  /\ completion # NoCompletion => called[Len(called)] = completion.model
  /\ \A i \in 1..Len(responses) :
       responses[i].status = 200 =>
         /\ completion.shape = "content"
         /\ responses[i].body.content = <<"generated by", called[Len(called)]>>
  /\ (pc = "done" /\ completion.shape = "content") => Responded(200)

\* the second model succeeded after the first was refused
C1_Witness ==
  /\ pc = "done" /\ Len(called) = 2
  /\ completion.shape = "content"
  /\ Responded(200)

C2_AccessFailure(e) == e.status = 403 \/ e.code = "model_not_found"

\* C2: after a failed call, an access error (status 403 or code
\* model_not_found) leaves the loop running for the next model while one is
\* left; any other failure is thrown at once, so the loop is over, no
\* completion exists, and the response is the one that failure maps to.
C2_AccessContinuesOtherAborts ==
  /\ (lastError # NoError /\ completion = NoCompletion /\ C2_AccessFailure(lastError)
        /\ Len(called) < Len(models)) => pc = "loop"
  /\ (lastError # NoError /\ ~C2_AccessFailure(lastError)) =>
       /\ pc \in {"catch", "done"}
       /\ thrown = lastError
       /\ completion = NoCompletion
       /\ pc = "done" => responses = <<ErrorToResponse(lastError, nodeEnv)>>

\* the first model was refused (404 model_not_found), the second hit the rate
\* limit and ended the request
C2_Witness ==
  /\ pc = "done" /\ Len(called) = 2
  /\ lastError.status = 429 /\ lastError.code = ""
  /\ Responded(429)

\* the status the taxonomy gives a failure: 401 credential, 403 model access,
\* 413 payload too large, 429 rate limit, 500 everything else (a message that
\* names the API key counts as a credential error)
C3_TaxonomyStatus(e) ==
  IF e.status = 401 THEN 401
  ELSE IF e.status = 403 \/ e.code = "model_not_found" THEN 403
  ELSE IF e.status = 413 THEN 413
  ELSE IF e.status = 429 THEN 429
  ELSE IF Includes(e.message, "API key") THEN 401
  ELSE 500

\* C3: when generation fails, the response status is the one the taxonomy gives
\* the failure (401, 403, 413, 429, else 500) and the body has an error text.
C3_StatusFollowsTaxonomy ==
  (pc = "done" /\ called # <<>> /\ ~Responded(200)) =>
    /\ Len(responses) = 1
    /\ "error" \in DOMAIN responses[1].body
    /\ responses[1].body.error # ""
    /\ responses[1].status = IF thrown # NoError THEN C3_TaxonomyStatus(thrown) ELSE 500

C4_Incomplete ==
  req.file = NoFile \/ req.type = "" \/ (req.apiKey = "" /\ envKey = "")

\* C4: a request without file, type or credential (form field and server
\* default both missing) is answered 400 with an error text, and nothing is
\* extracted and no model is called for it; with file and type present and an
\* empty apiKey field, a configured default key lets the request go on to
\* text extraction.
C4_IncompleteRequestIs400 ==
  /\ (pc \notin {"upload", "validate", "rejected"} /\ C4_Incomplete) =>
       /\ pc = "done"
       /\ Responded(400)
       /\ responses[1].body.error # ""
       /\ reading = "none" /\ parseRet = NoText /\ parsed = NoText
       /\ called = <<>>
  /\ (pc \notin {"upload", "validate", "rejected", "parse"}
        /\ req.file # NoFile /\ req.type # "" /\ req.apiKey = "" /\ envKey # "") =>
       parseRet # NoText

\* file and type are there, the credential is not
C4_Witness ==
  /\ pc = "done" /\ req.file # NoFile /\ req.type # ""
  /\ req.apiKey = "" /\ envKey = ""
  /\ Responded(400)

C6_DeletedOnlyAfterExtraction ==
  reading = "started" => fileExists

\* C7: for a PDF, once the parser has reported (data ready or data error),
\* parseFileContent has resolved with a non-empty text, and a finished request
\* got as far as a model call.
C7_PdfFailureGivesPlaceholder ==
  (req.file # NoFile /\ IsPdf) =>
    /\ reading \in {"finished", "failed"} =>
         (parsed.kind = "text" /\ TextLen(Trim(parsed.text)) > 0)
    /\ (pc = "done" /\ parseRet # NoText) => called # <<>>

C8_MarkerLength == 38

RECURSIVE C8_CharAt(_, _)
\* the i-th character (1-based) of t, "" when i is out of range
C8_CharAt(t, i) ==
  IF t = <<>> \/ i < 1 THEN ""
  ELSE IF i <= Head(t).n THEN Head(t).c
  ELSE C8_CharAt(Tail(t), i - Head(t).n)


\* C8: the text in the prompt is the extracted text itself when that has at
\* most 12,000 characters; otherwise its first 12,000 characters followed by
\* the marker "\n\n[Content truncated due to length...]"; so it is never longer
\* than 12,000 characters plus the marker.
C8_PromptTextTruncated ==
  (pc = "loop" /\ called = <<>>) =>
    LET x == parsed.text
        y == prompt.content
    IN /\ y = content
       /\ TextLen(y) <= maxLength + C8_MarkerLength
       /\ TextLen(x) <= maxLength => y = x
       /\ TextLen(x) > maxLength =>
            /\ TextLen(y) = maxLength + C8_MarkerLength
            /\ \A i \in 1..maxLength : C8_CharAt(y, i) = C8_CharAt(x, i)
            /\ \A i \in 1..2 : C8_CharAt(y, maxLength + i) = "\n"
            /\ \A i \in 3..C8_MarkerLength :
                 C8_CharAt(y, maxLength + i) = "[Content truncated due to length...]"

\* a text longer than the limit was cut
C8_Witness ==
  /\ pc = "loop" /\ called = <<>>
  /\ TextLen(parsed.text) > maxLength
  /\ TextLen(prompt.content) = maxLength + C8_MarkerLength

(***************************************************************************)
(* Properties of the client (checked under ClientSpec)                     *)
(***************************************************************************)
\* C9: at most one generation request is outstanding at any time.
C9_OneRequestInFlight == Cardinality(inflight) <= 1

\* a second request is under way, after the first has settled, with file and
\* type selected
C9_Witness ==
  /\ Cardinality(inflight) = 1 /\ started = 2
  /\ selectedFile # Null /\ selectedType # "null"

C10_EndsInExe(name) ==
  Len(name) >= 4 /\ SubSeq(name, Len(name) - 3, Len(name)) = <<".", "e", "x", "e">>

\* C10: every handleFileUpload call with a file whose name ends in .exe, or
\* with a file larger than 50 MiB, shows a destructive toast and leaves
\* selectedFile and generatedContent as they were.
C10_RejectsExeAndOversize ==
  [][\A f \in ClientFiles :
       (HandleFileUpload(f) /\ (C10_EndsInExe(f.name) \/ f.size > MaxFileSize)) =>
         /\ toast'.variant = "destructive"
         /\ selectedFile' = selectedFile
         /\ generatedContent' = generatedContent]_vars


(***************************************************************************)
(* Properties of extractKeyPoints (checked under KeyPointsSpec)            *)
(***************************************************************************)
\* the 1-based numbers of the marker lines of the text given
C19_MarkerLines ==
  LET ls == SplitLines(keyPointsText) IN {i \in 1..Len(ls) : IsKeyPointMarker(ls[i])}

\* C19: intro is the trimmed join of the lines before the first bullet or
\* numbered-item marker line, and the lines from that one on are the bullet
\* lines; when no line has a marker, intro is empty and every line is a bullet
\* line.
C19_IntroIsLinesBeforeFirstMarker ==
  keyPointsPc \in {"loop", "done"} =>
    LET ls == SplitLines(keyPointsText) IN
    IF C19_MarkerLines = {}
    THEN intro = <<>> /\ bulletLines = ls
    ELSE LET f == CHOOSE i \in C19_MarkerLines : \A j \in C19_MarkerLines : i <= j IN
         /\ intro = StrTrim(Join(SubSeq(ls, 1, f - 1), <<"\n">>))
         /\ bulletLines = SubSeq(ls, f, Len(ls))

\* the worked example: intro is 'Some intro text.'
C19_Witness ==
  /\ keyPointsPc = "done"
  /\ keyPointsText = KeyPointsExample
  /\ intro =
      <<"S", "o", "m", "e", " ", "i", "n", "t", "r", "o", " ", "t", "e", "x",
        "t", ".">>
  /\ Len(bulletLines) = 3

\* the elements of a set of numbers, in increasing order
RECURSIVE C20_Sorted(_)
C20_Sorted(S) ==
  IF S = {} THEN <<>>
  ELSE LET m == CHOOSE i \in S : \A j \in S : i <= j IN <<m>> \o C20_Sorted(S \ {m})

\* the lines of ls trimmed, without those that are empty then
RECURSIVE C20_NonBlankTrimmed(_)
C20_NonBlankTrimmed(ls) ==
  IF ls = <<>> THEN <<>>
  ELSE (IF StrTrim(Head(ls)) = <<>> THEN <<>> ELSE <<StrTrim(Head(ls))>>)
         \o C20_NonBlankTrimmed(Tail(ls))

\* C20: when the text has marker lines, there is one bullet per marker line, in
\* line order, and each bullet is the text of its marker line after the marker
\* followed by the non-blank lines up to the next marker line (or the end),
\* each trimmed, joined with single spaces; blank lines add nothing.
C20_OneBulletPerMarkerLine ==
  (keyPointsPc = "done" /\ C19_MarkerLines # {}) =>
    LET ls == SplitLines(keyPointsText)
        ms == C20_Sorted(C19_MarkerLines)
    IN /\ Len(bullets) = Len(ms)
       /\ \A k \in 1..Len(ms) :
            LET m == ms[k]
                n == IF k < Len(ms) THEN ms[k + 1] ELSE Len(ls) + 1
                first == StrTrim(SliceFrom(ls[m], KeyPointMarkerLen(ls[m])))
            IN bullets[k] =
                 StrTrim(Join(<<first>> \o C20_NonBlankTrimmed(SubSeq(ls, m + 1, n - 1)),
                              <<" ">>))

\* two marker lines with a blank line and a continuation line between them
C20_Witness ==
  /\ keyPointsPc = "done"
  /\ keyPointsText = <<"-", " ", "a", "\n", "\n", " ", "d", "\n", "1", ".", " ", "b">>
  /\ bullets = << <<"a", " ", "d">>, <<"b">> >>

(***************************************************************************)
(* Properties of parseOutline (checked under OutlineSpec)                  *)
(***************************************************************************)
\* the length of a markdown heading marker (one to most '#', then white
\* space) at the start of line, 0 when there is none
C16_HeadingMarkerLen(line, most) ==
  LET k == LeadingIn(line, {"#"})
      w == LeadingIn(SliceFrom(line, k), SpaceChars)
  IN IF k >= 1 /\ k <= most /\ w >= 1 THEN k + w ELSE 0

\* the line has a roman-numeral-dot prefix or a markdown heading marker
C16_IsSectionMarkerLine(line, most) ==
  RomanLen(line) > 0 \/ C16_HeadingMarkerLen(line, most) > 0

\* the line with that marker stripped (after a roman-numeral-dot prefix, a
\* heading marker that follows it directly as well)
C16_MarkerStripped(line, most) ==
  LET rest == SliceFrom(line, RomanLen(line)) IN
  StrTrim(SliceFrom(rest, C16_HeadingMarkerLen(rest, most)))

\* the titles of the sections such lines open, in line order
RECURSIVE C16_ExpectedTitles(_, _)
C16_ExpectedTitles(ls, most) ==
  IF ls = <<>> THEN <<>>
  ELSE (IF C16_IsSectionMarkerLine(Head(ls), most)
        THEN <<C16_MarkerStripped(Head(ls), most)>> ELSE <<>>)
         \o C16_ExpectedTitles(Tail(ls), most)

\* the result holds one section per marker line, in line order, titled by the
\* line without the marker; a section opened by default for a subtopic or
\* point line that comes before the first marker line is not counted
C16_SectionsFollowMarkerLines(most) ==
  outlinePc = "done" =>
    LET titles == [k \in 1..Len(sections) |-> sections[k].title]
        expected == C16_ExpectedTitles(lines, most)
    IN \/ titles = expected
       \/ /\ titles # <<>>
          /\ ~C16_IsSectionMarkerLine(lines[1], most)
          /\ Tail(titles) = expected

\* C16, as stated: every line with a roman-numeral-dot prefix or a markdown
\* heading marker (one to six '#') starts a new section titled by the line
\* without the marker, the open section being pushed first and the last one
\* at the end of input: the result holds one section per such line, in line
\* order.
C16_OneSectionPerMarkerLine == C16_SectionsFollowMarkerLines(6)

\* C16, amended: every line with a roman-numeral-dot prefix or a heading
\* marker of a single '#' followed by white space starts a new section titled
\* by the line without the marker, the open section being pushed first and
\* the last one at the end of input: the result holds one section per such
\* line, in line order, after the default section of a subtopic or point line
\* that comes first.
C16_OneSectionPerRecognisedLine == C16_SectionsFollowMarkerLines(1)

\* the worked example has been parsed: two sections, the first with one
\* subtopic of two points, the second with none
C16_Witness ==
  /\ outlinePc = "done"
  /\ outlineText = OutlineExample
  /\ Len(sections) = 2
  /\ sections[1].title = <<"I", "n", "t", "r", "o">>
  /\ Len(sections[1].subtopics) = 1
  /\ Len(sections[1].subtopics[1].points) = 2
  /\ sections[2].title = <<"B", "o", "d", "y">>
  /\ sections[2].subtopics = <<>>

\* the line starts with a single capital letter, a dot and white space
C17_IsLetterDotLine(line) == LetterLen(line) > 0 /\ line[2] = "."

\* C17: a line whose prefix is a single capital letter (any of A to Z) and a
\* dot, met while a section is open, appends a new subtopic to that section
\* and opens no new section.
C17_LetterDotStartsSubtopic ==
  [][(outlinePc = "loop" /\ lineIdx <= Len(lines) /\ lineIdx' = lineIdx + 1
        /\ C17_IsLetterDotLine(lines[lineIdx]) /\ current # <<>>)
      => /\ sections' = sections
         /\ current' # <<>>
         /\ current'[1].title = current[1].title
         /\ Len(current'[1].subtopics) = Len(current[1].subtopics) + 1
         /\ currentSub' # <<>>
         /\ currentSub'[1].points = <<>>]_vars

\* the line has one of the three marker prefixes: a roman numeral and a dot
\* or a markdown heading; a single capital letter and a dot; digits and a dot
\* or a dash or asterisk bullet
C18_HasMarkerPrefix(line) ==
  \/ RomanLen(line) > 0
  \/ line[1] = "#"
  \/ (Len(line) >= 2 /\ line[1] \in UpperChars /\ line[2] = ".")
  \/ LET n == LeadingIn(line, DigitChars) IN n > 0 /\ Len(line) > n /\ line[n + 1] = "."
  \/ line[1] \in {"-", "*"}

\* white space stands in line after its first n characters and a dot, if
\* there is a dot
C18_SpaceAfter(line, n) ==
  LET d == IF Len(line) > n /\ line[n + 1] = "." THEN 1 ELSE 0
  IN Len(line) > n + d /\ line[n + d + 1] \in SpaceChars

\* the line has one of the three marker prefixes as the code reads them: a
\* roman numeral and a dot, or one '#' and white space; a single capital
\* letter, a dot or none, and white space; digits, a dot or none, and white
\* space, or a dash or an asterisk and white space
C18_HasRecognisedPrefix(line) ==
  \/ RomanLen(line) > 0
  \/ (Len(line) >= 2 /\ line[1] \in {"#", "-", "*"} /\ line[2] \in SpaceChars)
  \/ (line[1] \in UpperChars /\ C18_SpaceAfter(line, 1))
  \/ (line[1] \in DigitChars /\ C18_SpaceAfter(line, LeadingIn(line, DigitChars)))

\* the loop passes over a line
C18_PassesOver ==
  outlinePc = "loop" /\ lineIdx <= Len(lines) /\ lineIdx' = lineIdx + 1

\* the step leaves the result, the open section and the open subtopic as
\* they are
C18_ChangesNothing == sections' = sections /\ current' = current /\ currentSub' = currentSub

\* C18, as stated: a non-empty line with none of the three marker prefixes
\* (dots required) adds no section, no subtopic and no point, and leaves the
\* open section and the open subtopic as they are.
C18_OtherLineIsIgnored ==
  [][(C18_PassesOver /\ ~C18_HasMarkerPrefix(lines[lineIdx]))
       => C18_ChangesNothing]_vars

\* C18, amended: a non-empty line with none of the three marker prefixes as
\* the code reads them (the dot after a capital letter or after digits being
\* optional, white space required after every marker but roman-numeral-dot)
\* adds no section, no subtopic and no point, and leaves the open section and
\* the open subtopic as they are.
C18_UnrecognisedLineIsIgnored ==
  [][(C18_PassesOver /\ ~C18_HasRecognisedPrefix(lines[lineIdx]))
       => C18_ChangesNothing]_vars

\* a line of plain text has been passed over with a section and a subtopic
\* open
C18_Witness ==
  /\ outlinePc = "loop"
  /\ lineIdx = 4
  /\ lines = << <<"I", ".", " ", "a">>, <<"A", ".", " ", "c">>, <<"g">> >>
  /\ sections = <<>>
  /\ current # <<>>
  /\ Len(current[1].subtopics) = 1
  /\ currentSub # <<>>

(***************************************************************************)
(* Properties of cleanContent (checked under CleanSpec)                    *)
(***************************************************************************)
\* C11: cleanContent is idempotent: cleaning the cleaned text again, with the
\* same kind, gives the cleaned text.
C11_CleanIsIdempotent == cleanPc = "again" => cleanedAgain = cleaned

\* no preamble phrase at the start, no marker of the kind's branch after
\* position 0, no closing-remark phrase, no run of three or more newlines
C12_NothingToClean(x, type) ==
  /\ \A k \in 1..Len(preamblePatterns) : PreambleLen(x, preamblePatterns[k]) = 0
  /\ \A p \in 1..(Len(x) - 1) : ~MarkerAt(x, p, type)
  /\ ClosingAt(x) = {}
  /\ \A i \in 1..(Len(x) - 2) : ~(x[i] = "\n" /\ x[i + 1] = "\n" /\ x[i + 2] = "\n")

\* C12: cleanContent returns a text for every input and kind, made of
\* characters of the input; when the input has no preamble phrase at its start,
\* no marker after position 0, no closing-remark phrase and no run of three or
\* more newlines, the result is the input without its leading and trailing
\* white space.
C12_TotalAndConservative ==
  cleanPc \in {"cleaned", "again"} =>
    /\ DOMAIN cleaned = 1..Len(cleaned)
    /\ \A i \in 1..Len(cleaned) : \E j \in 1..Len(cleanInput) : cleaned[i] = cleanInput[j]
    /\ C12_NothingToClean(cleanInput, cleanType) => cleaned = StrTrim(cleanInput)

\* an input of two lines of text after an empty line, with nothing to clean
C12_Witness ==
  /\ cleanPc = "cleaned"
  /\ cleanInput = <<"\n", "z", "\n", "z">>
  /\ C12_NothingToClean(cleanInput, cleanType)
  /\ cleaned = <<"z", "\n", "z">>

\* the length of a roman-numeral item marker (a numeral and a dot) at 0-based
\* position p of s, 0 when there is none
C13_RomanItemLen(s, p) ==
  LET n == LeadingIn(SliceFrom(s, p), {"M", "D", "C", "L", "X", "V", "I"}) IN
  IF n >= 1 /\ p + n < Len(s) /\ s[p + n + 1] = "." /\ IsRomanNumeral(SubSeq(s, p + 1, p + n))
  THEN n + 1 ELSE 0

\* the length of the structural marker that starts a line (the text, or after
\* a newline) at 0-based position p of s, without the white space a bullet ends in; 0 when there is none.
\* roman tells whether every roman-numeral item counts, or 'I.' and 'II.' only
C13_MarkerLen(s, p, roman) ==
  IF ~(p = 0 \/ s[p] = "\n") THEN 0
  ELSE IF LitAt(s, p, <<"#">>) \/ CharSpaceAt(s, p, "*") \/ CharSpaceAt(s, p, "-") THEN 1
  ELSE IF NumberDotAt(s, p) THEN LeadingIn(SliceFrom(s, p), DigitChars) + 1
  ELSE IF roman THEN C13_RomanItemLen(s, p)
  ELSE IF LitAt(s, p, <<"I", ".">>) THEN 2
  ELSE IF LitAt(s, p, <<"I", "I", ".">>) THEN 3
  ELSE 0

\* when the first structural marker of the input is after position 0, the
\* cleaned text is what cleaning the input from that marker on gives, and it
\* begins with the marker
C13_CutAtFirstMarker(roman) ==
  (cleanPc \in {"cleaned", "again"} /\ cleanType # "flashcards") =>
    LET hits == {p \in 0..(Len(cleanInput) - 1) : C13_MarkerLen(cleanInput, p, roman) > 0} IN
    hits # {} =>
      LET f == CHOOSE p \in hits : \A q \in hits : p <= q
          n == C13_MarkerLen(cleanInput, f, roman)
      IN f > 0 =>
           /\ cleaned = CleanContent(SliceFrom(cleanInput, f), cleanType)
           /\ Len(cleaned) >= n
           /\ SubSeq(cleaned, 1, n) = SubSeq(cleanInput, f + 1, f + n)

\* C13: for every kind but flashcards, when a structural marker (a '#' heading,
\* a dash or asterisk bullet, a numbered item or a roman-numeral item) starts a
\* line after position 0, everything before the first such marker is discarded
\* and the output begins with that marker.
C13_CutAtFirstStructuralMarker == C13_CutAtFirstMarker(TRUE)

\* C13 as amended: the same, the roman-numeral items being 'I.' and 'II.' only.
C13_CutAtFirstRecognisedMarker == C13_CutAtFirstMarker(FALSE)

\* the worked example: a 'Here is your summary:' line, then '# Title'
C13_Witness ==
  /\ cleanPc = "cleaned"
  /\ cleanType = "summary"
  /\ cleanInput = CleanExample
  /\ SubSeq(cleaned, 1, 7) = <<"#", " ", "T", "i", "t", "l", "e">>



(***************************************************************************)
(* Flashcard extraction                                                    *)
(***************************************************************************)
\* the block 'Question: q', 'Answer: a' of a pair <<q, a>>
C14_Block(pair) ==
  QuestionLabel \o <<" ">> \o pair[1] \o <<"\n">> \o AnswerLabel \o <<" ">> \o pair[2]

\* single-line questions and answers with no label, no leading digit and no
\* bullet: those of the blocks of CardBlockSet and of the worked example
C14_Pairs ==
  { <<<<"a", "b", "c">>, <<"y", "z">>>>,
    <<<<" ", "x", "y", "z", " ">>, <<" ", "u", "v">>>>,
    <<<<"a", "b">>, <<"y", "z">>>>,
    <<<<"a", "b", "d">>, <<"y">>>>,
    <<<<"W", "h", "a", "t", " ", "i", "s", " ", "X", "?">>,
      <<"X", " ", "i", "s", " ", "Y", ".">>>>,
    <<<<"W", "h", "a", "t", " ", "i", "s", " ", "Z", "?">>,
      <<"Z", " ", "i", "s", " ", "W", ".">>>> }

\* the pairs whose trimmed question has more than 2 characters and whose
\* trimmed answer has more than 1
C14_LongPairs ==
  {pair \in C14_Pairs : Len(StrTrim(pair[1])) > 2 /\ Len(StrTrim(pair[2])) > 1}

\* when the cleaned text is blocks of pairs of the set, separated by empty
\* lines, the result is the trimmed pairs, one card per block, in order
C14_YieldsTheBlocks(pairs) ==
  cardsPc = "done" =>
    \A k \in 1..MaxCardBlocks : \A ps \in [1..k -> pairs] :
      cleanedContent = Join([i \in 1..k |-> C14_Block(ps[i])], <<"\n", "\n">>)
        => flashcards = [i \in 1..k |->
                          [question |-> StrTrim(ps[i][1]), answer |-> StrTrim(ps[i][2])]]

\* C14, as stated: a cleaned text of N blocks 'Question: q / Answer: a'
\* separated by blank lines yields exactly N flashcards, in input order, each
\* with the trimmed q and the trimmed a, whatever the lengths of q and a
C14_OneCardPerBlock == C14_YieldsTheBlocks(C14_Pairs)

\* C14, amended: a cleaned text of N blocks 'Question: q / Answer: a'
\* separated by blank lines, every trimmed q longer than 2 characters and
\* every trimmed a longer than 1, yields exactly N flashcards, in input
\* order, each with the trimmed q and the trimmed a, with no duplicates
C14_OneCardPerLongBlock == C14_YieldsTheBlocks(C14_LongPairs)

\* the worked example has been extracted: two cards, in order
C14_Witness ==
  /\ cardsPc = "done"
  /\ cardsInput = CardsExample
  /\ cleanedContent = CardsExample
  /\ Len(flashcards) = 2
  /\ flashcards[1].question = <<"W", "h", "a", "t", " ", "i", "s", " ", "X", "?">>
  /\ flashcards[2].answer = <<"Z", " ", "i", "s", " ", "W", ".">>

\* C15: every flashcard emitted, by a pattern or by the fallback, has a
\* question of more than 2 characters and an answer of more than 1
C15_EveryCardIsLongEnough ==
  \A i \in 1..Len(flashcards) :
    Len(flashcards[i].question) > 2 /\ Len(flashcards[i].answer) > 1

(***************************************************************************)
(* Properties of parseOutline: default entities, conservation              *)
(***************************************************************************)
\* white space stands in line after its first n characters and a dot, if
\* there is a dot
C21_SpaceAfter(line, n) ==
  \/ (Len(line) > n /\ line[n + 1] \in SpaceChars)
  \/ (Len(line) > n + 1 /\ line[n + 1] = "." /\ line[n + 2] \in SpaceChars)

\* a numbered-item line or a dash or asterisk bullet line
C21_IsPointLine(line) ==
  \/ (line[1] \in DigitChars /\ C21_SpaceAfter(line, LeadingIn(line, DigitChars)))
  \/ (Len(line) >= 2 /\ line[1] \in {"-", "*"} /\ line[2] \in SpaceChars)

\* a subtopic line: a single capital letter, a dot and white space
C21_IsSubtopicLine(line) ==
  Len(line) >= 3 /\ line[1] \in UpperChars /\ line[2] = "." /\ line[3] \in SpaceChars

\* the loop passes over the line at lineIdx
C21_PassesOver ==
  outlinePc = "loop" /\ lineIdx <= Len(lines) /\ lineIdx' = lineIdx + 1

\* the section a point line adds to: the open one, or a new one titled 'Outline'
C21_SectionBefore == IF current = <<>> THEN Section(OutlineTitle, <<>>) ELSE current[1]

\* the subtopic a point line adds to: the open one, or a new one titled 'Details'
C21_SubtopicBefore == IF currentSub = <<>> THEN Subtopic(DetailsTitle, <<>>) ELSE currentSub[1]

\* the subtopics of the section before the point is added
C21_SubtopicsBefore ==
  IF currentSub = <<>>
  THEN Append(C21_SectionBefore.subtopics, C21_SubtopicBefore)
  ELSE C21_SectionBefore.subtopics

\* a point line adds one point at the end of the open subtopic, after the
\* default section and the default subtopic have been created where none is open
C21_PointIsAppended ==
  /\ sections' = sections
  /\ current' # <<>>
  /\ current'[1].title = C21_SectionBefore.title
  /\ Len(current'[1].subtopics) = Len(C21_SubtopicsBefore)
  /\ \A k \in 1..(Len(C21_SubtopicsBefore) - 1) :
       current'[1].subtopics[k] = C21_SubtopicsBefore[k]
  /\ currentSub' = <<current'[1].subtopics[Len(current'[1].subtopics)]>>
  /\ currentSub'[1].title = C21_SubtopicBefore.title
  /\ Len(currentSub'[1].points) = Len(C21_SubtopicBefore.points) + 1
  /\ SubSeq(currentSub'[1].points, 1, Len(C21_SubtopicBefore.points))
       = C21_SubtopicBefore.points

\* a subtopic line met with no open section opens a section titled 'Outline'
\* and adds the subtopic to it
C21_DefaultSectionIsOpened ==
  /\ sections' = sections
  /\ current' # <<>>
  /\ current'[1].title = OutlineTitle
  /\ Len(current'[1].subtopics) = 1
  /\ currentSub' = <<current'[1].subtopics[1]>>
  /\ currentSub'[1].points = <<>>

\* the part of C21 about point lines
C21_PointLines ==
  [][(C21_PassesOver /\ C21_IsPointLine(lines[lineIdx])) => C21_PointIsAppended]_vars

\* C21: a numbered-item or bullet line appends one point to the open
\* subtopic, a subtopic titled 'Details' being created first when none is
\* open and a section titled 'Outline' when no section is open; a subtopic
\* line met with no open section likewise creates a default-titled section
\* before the subtopic is added.
C21_DefaultsAreCreated ==
  [][/\ (C21_PassesOver /\ C21_IsPointLine(lines[lineIdx])) => C21_PointIsAppended
     /\ (C21_PassesOver /\ C21_IsSubtopicLine(lines[lineIdx]) /\ current = <<>>)
          => C21_DefaultSectionIsOpened]_vars


\* the entries of a subtopic: its title, then its points
C29_SubtopicEntries(sub) ==
  <<<<"subtopic", sub.title>>>> \o [i \in 1..Len(sub.points) |-> <<"point", sub.points[i]>>]

RECURSIVE C29_SubtopicsEntries(_)
C29_SubtopicsEntries(subs) ==
  IF subs = <<>> THEN <<>>
  ELSE C29_SubtopicEntries(Head(subs)) \o C29_SubtopicsEntries(Tail(subs))

\* the entries of a result, in the order in which it holds them: each
\* section's title, then its subtopics, each with its points
RECURSIVE C29_Entries(_)
C29_Entries(secs) ==
  IF secs = <<>> THEN <<>>
  ELSE <<<<"section", Head(secs).title>>>> \o C29_SubtopicsEntries(Head(secs).subtopics)
         \o C29_Entries(Tail(secs))

\* the line opens a section: a roman numeral and a dot, or '#' and white space
C29_IsSectionLine(line) ==
  RomanLen(line) > 0 \/ (Len(line) >= 2 /\ line[1] = "#" /\ line[2] \in SpaceChars)

\* the line opens a subtopic: a capital letter, a dot or none, white space
C29_IsSubtopicLine(line) ==
  ~C29_IsSectionLine(line) /\ line[1] \in UpperChars /\ C21_SpaceAfter(line, 1)

\* the text of a subtopic or point line after its marker
C29_TextAfterMarker(line) ==
  StrTrim(SliceFrom(line, LeadingNotIn(line, SpaceChars)))

\* the entry a line stands for, if it stands for one
C29_LineEntries(line) ==
  IF C29_IsSectionLine(line) THEN <<<<"section", C16_MarkerStripped(line, 1)>>>>
  ELSE IF C29_IsSubtopicLine(line) THEN <<<<"subtopic", C29_TextAfterMarker(line)>>>>
  ELSE IF C21_IsPointLine(line) THEN <<<<"point", C29_TextAfterMarker(line)>>>>
  ELSE <<>>

\* the entries the lines stand for, in line order
RECURSIVE C29_LinesEntries(_)
C29_LinesEntries(ls) ==
  IF ls = <<>> THEN <<>>
  ELSE C29_LineEntries(Head(ls)) \o C29_LinesEntries(Tail(ls))

C29_IsPoint(entry) == entry[1] = "point"
C29_IsNoDefaultSubtopic(entry) == entry # <<"subtopic", DetailsTitle>>

\* the entries of the result without the section that was opened by default
\* (the first one, when the first entry of the lines is no section)
C29_WithoutDefaultSection(entries, expected) ==
  IF entries # <<>> /\ (expected = <<>> \/ expected[1][1] # "section")
  THEN Tail(entries) ELSE entries

\* C29: parseOutline conserves point lines: the points of the result, over
\* all subtopics of all sections, are the texts of the lines classified as
\* numbered-item or bullet lines, one each and in line order; and the
\* sections, subtopics and points of the result, the default ones apart, are
\* the entries of the lines in line order, each subtopic in one section.
C29_PointsAreConserved ==
  outlinePc = "done" =>
    /\ SelectSeq(C29_Entries(sections), C29_IsPoint)
         = SelectSeq(C29_LinesEntries(lines), C29_IsPoint)
    /\ SelectSeq(C29_WithoutDefaultSection(C29_Entries(sections), C29_LinesEntries(lines)),
                 C29_IsNoDefaultSubtopic)
         = C29_LinesEntries(lines)

\* a point under a default subtopic of a default section, then a section
\* with a subtopic and a point
C29_Witness ==
  /\ outlinePc = "done"
  /\ lines = << <<"1", ".", " ", "e">>, <<"I", ".", " ", "a">>,
                <<"A", ".", " ", "c">>, <<"-", " ", "f">> >>
  /\ Len(sections) = 2
  /\ sections[1].subtopics[1].points = << <<"e">> >>
  /\ sections[2].subtopics[1].points = << <<"f">> >>

(***************************************************************************)
(* Properties of the flashcard extraction: the numbered-item pattern       *)
(***************************************************************************)
\* the step pushes a card for a match of patterns[2]
C30_NumberedCardIsPushed ==
  cardsPc = "patterns" /\ rx = 3 /\ Len(flashcards') = Len(flashcards) + 1

\* the text is an answer label, in any case
C30_IsLabel(text) ==
  (Len(text) = Len(AnswerLabel) /\ LitAtFold(text, 0, AnswerLabel))
    \/ (Len(text) = Len(ALabel) /\ LitAtFold(text, 0, ALabel))

\* the card is the item text and the answer text of the match
C30_IsCardOf(card, m) ==
  /\ card.question = StrTrim(m.m1)
  /\ card.answer = StrTrim(m.m3)
  /\ ~C30_IsLabel(card.question)

\* C30: every flashcard produced from a match of the numbered-item pattern
\* has as its question the item text between the number and the answer
\* label and as its answer the text after the label; its question is never
\* the label text itself.
C30_NumberedCardHoldsItemText ==
  [][C30_NumberedCardIsPushed
       => C30_IsCardOf(flashcards'[Len(flashcards')],
                       NumberedExec(cleanedContent, lastIndex))]_vars

(***************************************************************************)
(* Properties of the request handler: cleanup, responses, file types       *)
(***************************************************************************)
\* C24: for a request that arrives with an uploaded file, the temporary file
\* has been deleted by the time the response is sent, on every path of the
\* handler, the early 400 responses included.
C24_FileDeletedBeforeResponse ==
  (req.file # NoFile /\ responses # <<>>) => ~fileExists

\* C25: every request that the handler takes up eventually has exactly one
\* response, and never has two.
C25_ExactlyOneResponse ==
  /\ [](Len(responses) <= 1)
  /\ (pc = "validate") ~> (Len(responses) = 1)

\* C28: a file that passed the upload filter and reaches the switch of
\* parseFileContent is taken by the PDF, the PNG or the Markdown/text case,
\* never by the default case.
C28_AcceptedFileHasBranch ==
  (pc = "parse" /\ FileFilter(req.file)) => (IsPdf \/ IsPng \/ IsText)

(***************************************************************************)
(* Properties of generateStudyGuide: outcomes, progress timer, stale       *)
(* responses                                                               *)
(***************************************************************************)
\* the step ends the generation r: its request has settled and the body of
\* generateStudyGuide has run to its end
C22_Ends(r) == \A q \in inflight' : q.id # r.id

\* the result of r is on display
C22_ResultReady(r) ==
  /\ generatedContent'.content # ""
  /\ generatedContent'.type = r.type
  /\ generatedContent'.filename = r.file.name
  /\ toast'.variant = "default"

\* r has failed
C22_Failed ==
  /\ toast'.variant = "destructive"
  /\ generatedContent' = generatedContent

\* C22: every generation started by generateStudyGuide ends in exactly one
\* of two outcomes: the result is ready (generatedContent is the new content
\* with the type and the file name of that request) or it has failed (a
\* destructive toast, generatedContent as it was); in both isGenerating is
\* false afterwards.
C22_EndsReadyOrFailed ==
  [][\A r \in inflight :
       C22_Ends(r) =>
         /\ C22_ResultReady(r) \/ C22_Failed
         /\ ~(C22_ResultReady(r) /\ C22_Failed)
         /\ isGenerating' = FALSE]_vars

\* a first generation has succeeded and a second one has failed
C22_Witness ==
  /\ started = 2 /\ inflight = {}
  /\ generatedContent # NoContent
  /\ toast = Destructive("Generation failed")
  /\ ~isGenerating

\* C26: whenever no generation is in progress, no progress timer started by
\* generateStudyGuide is running and progress is 0; at most one progress
\* timer is active at any time.
C26_NoTimerWhenIdle ==
  /\ ~isGenerating => (timers = {} /\ progress = 0)
  /\ Cardinality(timers) <= 1

\* C27: while a file is selected, the result on display belongs to it: the
\* response of a request started for an earlier file does not repopulate
\* generatedContent.
C27_ResultBelongsToSelectedFile ==
  (selectedFile # Null /\ generatedContent # NoContent)
    => generatedContent.filename = selectedFile.name

(***************************************************************************)
(* Properties of handleCopy                                                *)
(***************************************************************************)
C23_Strategies == <<"clipboard", "textarea", "selection">>

\* the strategy puts the text on the clipboard; a strategy that throws,
\* rejects, returns false or has no content element to select has failed
C23_Succeeds(strategy) ==
  CASE strategy = "clipboard" -> copyEnv.clipboard = "resolves"
    [] strategy = "textarea" -> copyEnv.textarea = "true"
    [] strategy = "selection" -> contentRef /\ copyEnv.selection = "true"

\* the strategy has been run and has answered
C23_Answered(i) == i < Len(tried) \/ (i = Len(tried) /\ copyPc # "await")

\* C23: handleCopy runs the strategies in the order native clipboard API,
\* hidden textarea, selection, each one only after the one before it has
\* failed, and shows exactly one toast per invocation: the success toast at
\* the first strategy that succeeds, or the failure toast once all three have
\* failed.
C23_OneOutcomeInOrder ==
  /\ tried = SubSeq(C23_Strategies, 1, Len(tried))
  /\ \A i \in 2..Len(tried) : ~C23_Succeeds(tried[i - 1])
  /\ Len(copyToasts) <= 1
  /\ copyToasts # <<>> =>
       IF copyToasts[1] = CopiedToast
       THEN C23_Succeeds(tried[Len(tried)])
       ELSE /\ copyToasts[1] = CopyFailedToast
            /\ \A i \in 1..3 : ~C23_Succeeds(C23_Strategies[i])
            /\ Len(tried) = (IF contentRef THEN 3 ELSE 2)
  /\ \A i \in 1..Len(tried) :
       (C23_Answered(i) /\ C23_Succeeds(tried[i])) => copyToasts = <<CopiedToast>>
  /\ copyPc = "done" => Len(copyToasts) = 1

\* the first two strategies have failed and the third has copied the text
C23_Witness ==
  /\ copyPc = "done"
  /\ tried = C23_Strategies
  /\ copyEnv.clipboard = "rejects" /\ copyEnv.textarea = "false"
  /\ copyToasts = <<CopiedToast>>

\* all three have failed
C23_WitnessFailed ==
  /\ copyPc = "done"
  /\ tried = C23_Strategies
  /\ copyToasts = <<CopyFailedToast>>

=========================================================================
